---- MODULE Spec2Model ----
(***************************************************************************)
(* Model of the investment-tracker portfolio engine.                       *)
(*                                                                         *)
(*   SpecReplay : the pure helpers of helpers.py (transaction replay,      *)
(*                realized profit/loss) run on inputs drawn from bounded   *)
(*                sets; the replay loop is stepped one transaction at a    *)
(*                time.                                                    *)
(*   Spec       : the refresh orchestrator of coordinator.py with the      *)
(*                command handlers of __init__.py and config_flow.py,      *)
(*                interleaved at their suspension points.                  *)
(*                                                                         *)
(* Python floats are modelled as exact rationals [n, d] in lowest terms;   *)
(* quantities and prices of the inputs are integers.                       *)
(***************************************************************************)
EXTENDS Integers, Sequences, FiniteSets, TLC

\* ------------------------------------------------------------------ bounds
\* Longest transaction log given to the pure helpers.
MaxLog == 2
\* Most positions in a snapshot given to the pure helpers.
MaxSnapshot == 2

\* ------------------------------------------------------------ Python values
\* Python's None (an absent dict key reads as None through .get()).
NoneValue == "<None>"

\* str(value): the text of a value; str(None) is the text "None".
Str(value) == IF value = NoneValue THEN "None" ELSE value

\* Truthiness of an optional string as used by `x or default`.
Falsy(value) == value = NoneValue \/ value = ""

\* `a or b` on optional strings.
OrElse(a, b) == IF Falsy(a) THEN b ELSE a

\* value.strip().lower() on the broker texts of the model.
StripLower(value) ==
    CASE value = "ibkr"    -> "ibkr"
      [] value = "IBKR "   -> "ibkr"
      [] value = "degiro"  -> "degiro"
      [] value = "Degiro"  -> "degiro"
      [] value = "manual"  -> "manual"
      [] value = "unknown" -> "unknown"
      [] value = "Bond "   -> "bond"
      [] value = "None"    -> "none"
      [] value = ""        -> ""
      [] OTHER             -> value

\* value.strip().upper() on the symbol texts of the model.
StripUpper(value) ==
    CASE value = "AAPL"  -> "AAPL"
      [] value = " aapl" -> "AAPL"
      [] value = "MSFT"  -> "MSFT"
      [] value = "msft"  -> "MSFT"
      [] value = "None"  -> "NONE"
      [] value = ""      -> ""
      [] OTHER           -> value

\* _norm of apply_transactions_to_positions / compute_realized_profit_loss.
Norm(value) == StripLower(OrElse(value, ""))

\* _sym of apply_transactions_to_positions / compute_realized_profit_loss.
Sym(value) == StripUpper(OrElse(value, ""))

\* broker = _norm(str(rec.get("broker", "unknown"))) or "unknown"
BrokerOf(rec) == OrElse(Norm(Str(rec.broker)), "unknown")

\* symbol = _sym(str(rec.get("symbol", "")))
SymbolOf(rec) == Sym(Str(rec.symbol))

\* ----------------------------------------------------------------- floats
Abs(x) == IF x < 0 THEN -x ELSE x

RECURSIVE GCD(_, _)
GCD(a, b) == IF b = 0 THEN a ELSE GCD(b, a % b)

\* The rational n/d (d # 0) in lowest terms with a positive denominator.
Rat(n, d) ==
    LET s == IF d < 0 THEN -1 ELSE 1
        g == GCD(Abs(n), Abs(d))
    IN  [n |-> (s * n) \div g, d |-> (s * d) \div g]

RatOfInt(k) == [n |-> k, d |-> 1]
RZero == RatOfInt(0)
RAdd(x, y) == Rat(x.n * y.d + y.n * x.d, x.d * y.d)
RSub(x, y) == Rat(x.n * y.d - y.n * x.d, x.d * y.d)
RMulInt(x, k) == Rat(x.n * k, x.d)
RDivInt(x, k) == Rat(x.n, x.d * k)
RIsZero(x) == x.n = 0
RDiv(x, y) == Rat(x.n * y.d, x.d * y.n)

\* ------------------------------------------------------------------ dates
\* _aware_datetime(value) as an instant (days; 0 is datetime.min): ISO texts
\* go through fromisoformat, day-month-year texts through strptime, anything
\* else (also "None", the text of an absent date) is datetime.min.
AwareDatetime(value) ==
    IF Falsy(value) THEN 0
    ELSE CASE value = "2024-01-01" -> 1
           [] value = "01-01-2024" -> 1
           [] value = "2024-01-02" -> 2
           [] value = "02-01-2024 09:30" -> 2
           [] value = "2024-01-03T00:00:00Z" -> 3
           [] OTHER -> 0

\* key=lambda t: _parse_date(str(t.get("date")))
DateKey(tx) == AwareDatetime(Str(tx.date))

\* Insert tx behind every element whose key is not larger (stable order).
RECURSIVE InsertByDate(_, _)
InsertByDate(sorted, tx) ==
    IF sorted = << >> THEN << tx >>
    ELSE IF DateKey(Head(sorted)) <= DateKey(tx)
         THEN << Head(sorted) >> \o InsertByDate(Tail(sorted), tx)
         ELSE << tx >> \o sorted

RECURSIVE SortFrom(_, _)
SortFrom(sorted, rest) ==
    IF rest = << >> THEN sorted
    ELSE SortFrom(InsertByDate(sorted, Head(rest)), Tail(rest))

\* Mutant of SortByDate: the log is replayed in the order it is given.
SortByDateSkipped(txs) == txs

\* sorted(transactions, key=...): Python's sort is stable.
SortByDate(txs) == SortFrom(<< >>, txs)

\* --------------------------------------------------------------- records
\* A position dict. A key the dict does not hold reads as None (texts) or as
\* false (manual_type) or as 0 (quantity, avg_buy_price) through .get().
EmptyPosition ==
    [symbol |-> NoneValue, name |-> NoneValue, type |-> NoneValue,
     manual_type |-> FALSE, quantity |-> 0, avg_buy_price |-> RZero,
     currency |-> NoneValue, broker |-> NoneValue]

PosKey(pos) == << pos.broker, pos.symbol >>

\* dict[key] lookup position in an insertion-ordered dict of positions
\* (0 when the key is absent).
IndexOfKey(idx, key) ==
    IF \E i \in DOMAIN idx : PosKey(idx[i]) = key
    THEN CHOOSE i \in DOMAIN idx : PosKey(idx[i]) = key
    ELSE 0

\* pos_index[key] = value: a new key is appended, an old key keeps its place.
DictPut(idx, key, value) ==
    LET i == IndexOfKey(idx, key)
    IN  IF i = 0 THEN Append(idx, value) ELSE [idx EXCEPT ![i] = value]

\* pos_index.get(key, {})
DictGet(idx, key) ==
    LET i == IndexOfKey(idx, key)
    IN  IF i = 0 THEN EmptyPosition ELSE idx[i]

\* ---------------------------------------- apply_transactions_to_positions
\* The first loop: index the snapshot under its normalised (broker, symbol).
RECURSIVE BuildIndex(_, _)
BuildIndex(idx, positions) ==
    IF positions = << >> THEN idx
    ELSE LET pos    == Head(positions)
             broker == BrokerOf(pos)
             symbol == SymbolOf(pos)
         IN  IF symbol = "" THEN BuildIndex(idx, Tail(positions))
             ELSE BuildIndex(
                    DictPut(idx, << broker, symbol >>,
                            [pos EXCEPT !.broker = broker, !.symbol = symbol]),
                    Tail(positions))

\* symbol_brokers of the first loop, as the set of (symbol, broker) pairs.
BuildSymbolBrokers(positions) ==
    { << SymbolOf(positions[i]), BrokerOf(positions[i]) >> :
        i \in { j \in DOMAIN positions : SymbolOf(positions[j]) # "" } }

\* Mutant of Candidates: the brokers of every symbol are counted.
CandidatesOfAnySymbol(sb, symbol) == { p[2] : p \in sb }

\* symbol_brokers.get(symbol, set())
Candidates(sb, symbol) == { p[2] : p \in { q \in sb : q[1] = symbol } }

\* The broker a transaction is booked under (single-broker disambiguation).
TxBroker(idx, sb, tx) ==
    LET broker == BrokerOf(tx)
        symbol == SymbolOf(tx)
        cands  == Candidates(sb, symbol)
    IN  IF IndexOfKey(idx, << broker, symbol >>) # 0 THEN broker
        ELSE IF Cardinality(cands) = 1 THEN CHOOSE b \in cands : TRUE
        ELSE broker

\* The position a transaction starts from (`current`).
TxCurrent(idx, sb, tx) ==
    LET broker == BrokerOf(tx)
        symbol == SymbolOf(tx)
        cands  == Candidates(sb, symbol)
    IN  IF IndexOfKey(idx, << broker, symbol >>) # 0
        THEN DictGet(idx, << broker, symbol >>)
        ELSE IF Cardinality(cands) = 1
             THEN DictGet(idx, << CHOOSE b \in cands : TRUE, symbol >>)
             ELSE EmptyPosition

\* qty_new = qty_old + qty_tx
QtyNew(current, tx) == current.quantity + tx.quantity

\* Mutant of AvgNew: a buy averages the two prices without their weights.
AvgNewUnweighted(current, tx) ==
    LET qty_new == current.quantity + tx.quantity
    IN  IF tx.quantity > 0
        THEN IF qty_new # 0
             THEN RDivInt(RAdd(current.avg_buy_price, RatOfInt(tx.price)), 2)
             ELSE RZero
        ELSE IF qty_new > 0 THEN current.avg_buy_price ELSE RZero

\* Mutant of AvgNew: a sell keeps the basis also when nothing is left
\* (qty_new >= 0 for qty_new > 0).
AvgNewKeptAtZero(current, tx) ==
    LET qty_new == current.quantity + tx.quantity
    IN  IF tx.quantity > 0
        THEN IF qty_new # 0
             THEN RDivInt(RAdd(RMulInt(current.avg_buy_price, current.quantity),
                               RatOfInt(tx.price * tx.quantity)), qty_new)
             ELSE RZero
        ELSE IF qty_new >= 0 THEN current.avg_buy_price ELSE RZero

\* avg_new of the buy and of the sell branch.
AvgNew(current, tx) ==
    LET qty_old == current.quantity
        avg_old == current.avg_buy_price
        qty_tx  == tx.quantity
        qty_new == QtyNew(current, tx)
    IN  IF qty_tx > 0
        THEN LET total_cost == RAdd(RMulInt(avg_old, qty_old),
                                    RatOfInt(tx.price * qty_tx))
             IN  IF qty_new # 0 THEN RDivInt(total_cost, qty_new) ELSE RZero
        ELSE IF qty_new > 0 THEN avg_old ELSE RZero

\* Mutant of QuantityNew: the quantity is stored as computed, also below zero.
QuantityNewUnclamped(current, tx) == current.quantity + tx.quantity

\* "quantity": max(qty_new, 0)
QuantityNew(current, tx) ==
    IF QtyNew(current, tx) > 0 THEN QtyNew(current, tx) ELSE 0

\* Mutant of TxPosition: the broker text of the transaction is stored as
\* written instead of the normalised broker of the key.
TxPositionRawBroker(current, broker, symbol, tx) ==
    [current EXCEPT
        !.symbol = symbol,
        !.name = OrElse(current.name, OrElse(tx.name, symbol)),
        !.type = OrElse(current.type, "equity"),
        !.quantity = IF current.quantity + tx.quantity > 0
                     THEN current.quantity + tx.quantity ELSE 0,
        !.avg_buy_price = AvgNew(current, tx),
        !.currency = OrElse(current.currency, tx.currency),
        !.broker = tx.broker]

\* The dict written back for one transaction.
TxPosition(current, broker, symbol, tx) ==
    [current EXCEPT
        !.symbol = symbol,
        !.name = OrElse(current.name, OrElse(tx.name, symbol)),
        !.type = OrElse(current.type, "equity"),
        !.quantity = QuantityNew(current, tx),
        !.avg_buy_price = AvgNew(current, tx),
        !.currency = OrElse(current.currency, tx.currency),
        !.broker = broker]

\* One iteration of the second loop.
ApplyTx(idx, sb, tx) ==
    LET symbol == SymbolOf(tx)
        broker == TxBroker(idx, sb, tx)
    IN  IF symbol = "" THEN idx
        ELSE DictPut(idx, << broker, symbol >>,
                     TxPosition(TxCurrent(idx, sb, tx), broker, symbol, tx))

RECURSIVE ReplayLoop(_, _, _)
ReplayLoop(idx, sb, queue) ==
    IF queue = << >> THEN idx
    ELSE ReplayLoop(ApplyTx(idx, sb, Head(queue)), sb, Tail(queue))

\* apply_transactions_to_positions(positions, transactions)
apply_transactions_to_positions(positions, transactions) ==
    ReplayLoop(BuildIndex(<< >>, positions), BuildSymbolBrokers(positions),
               SortByDate(transactions))

\* ------------------------------------------- compute_realized_profit_loss
\* The running (qty, avg) of a key; an absent key reads as (0.0, 0.0).
LedgerGet(ledger, key) ==
    IF key \in DOMAIN ledger THEN ledger[key] ELSE [qty |-> 0, avg |-> RZero]

LedgerPut(ledger, key, value) ==
    [k \in DOMAIN ledger \cup {key} |-> IF k = key THEN value ELSE ledger[k]]

\* Mutant of RealizedStep: a sell is realized on its whole quantity, also on
\* the part that was never held.
RealizedStepUnclamped(st, tx) ==
    LET key     == << BrokerOf(tx), SymbolOf(tx) >>
        current == LedgerGet(st.ledger, key)
        qty_new == current.qty + tx.quantity
    IN  IF SymbolOf(tx) = "" \/ tx.quantity = 0 THEN st
        ELSE IF tx.quantity > 0
        THEN [st EXCEPT !.ledger = LedgerPut(st.ledger, key,
                 [qty |-> qty_new,
                  avg |-> RDivInt(RAdd(RMulInt(current.avg, current.qty),
                                       RatOfInt(tx.price * tx.quantity)),
                                  qty_new)])]
        ELSE [ledger |-> LedgerPut(st.ledger, key,
                           [qty |-> IF qty_new < 0 THEN 0 ELSE qty_new,
                            avg |-> IF qty_new > 0 THEN current.avg ELSE RZero]),
              realized |-> RAdd(st.realized,
                                RMulInt(RSub(RatOfInt(tx.price), current.avg),
                                        Abs(tx.quantity)))]

\* One iteration of the loop: the state is [ledger, realized].
RealizedStep(st, tx) ==
    LET broker  == BrokerOf(tx)
        symbol  == SymbolOf(tx)
        key     == << broker, symbol >>
        current == LedgerGet(st.ledger, key)
        qty_old == current.qty
        avg_old == current.avg
        qty_tx  == tx.quantity
        price   == RatOfInt(tx.price)
    IN  IF symbol = "" THEN st
        ELSE IF qty_tx > 0
        THEN LET total_cost == RAdd(RMulInt(avg_old, qty_old),
                                    RatOfInt(tx.price * qty_tx))
                 qty_new    == qty_old + qty_tx
                 avg_new    == IF qty_new # 0 THEN RDivInt(total_cost, qty_new)
                               ELSE RZero
             IN  [st EXCEPT !.ledger = LedgerPut(st.ledger, key,
                                         [qty |-> qty_new, avg |-> avg_new])]
        ELSE IF qty_tx < 0
        THEN LET qty_sell      == Abs(qty_tx)
                 qty_available == IF qty_old > 0 THEN qty_old ELSE 0
                 qty_used      == IF qty_sell < qty_available THEN qty_sell
                                  ELSE qty_available
                 qty_diff      == qty_old - qty_sell
                 qty_new       == IF qty_diff < 0 THEN 0 ELSE qty_diff
             IN  [ledger |-> LedgerPut(st.ledger, key,
                               [qty |-> qty_new,
                                avg |-> IF qty_new > 0 THEN avg_old ELSE RZero]),
                  realized |-> RAdd(st.realized,
                                    RMulInt(RSub(price, avg_old), qty_used))]
        ELSE st

RECURSIVE RealizedLoop(_, _)
RealizedLoop(st, queue) ==
    IF queue = << >> THEN st
    ELSE RealizedLoop(RealizedStep(st, Head(queue)), Tail(queue))

\* The ledger compute_realized_profit_loss holds after its last transaction.
RealizedLedger(transactions) ==
    RealizedLoop([ledger |-> << >>, realized |-> RZero],
                 SortByDate(transactions)).ledger

\* compute_realized_profit_loss(transactions)
compute_realized_profit_loss(transactions) ==
    RealizedLoop([ledger |-> << >>, realized |-> RZero],
                 SortByDate(transactions)).realized

\* ------------------------------------------------- inputs of the helpers
\* (symbol, broker) texts of snapshot rows: un-normalised spellings of one
\* key, two brokers for one symbol, a second symbol and a blank symbol.
SnapshotKeys ==
    { << "AAPL", "ibkr" >>, << " aapl", "IBKR " >>, << "AAPL", "Degiro" >>,
      << "MSFT", "ibkr" >>, << "", "ibkr" >> }

\* (quantity, avg_buy_price) of snapshot rows; float() takes any sign.
SnapshotHoldings == { << 10, 100 >>, << -10, 100 >> }

SnapshotPositions ==
    { [symbol |-> k[1], name |-> "Apple", type |-> "etf", manual_type |-> TRUE,
       quantity |-> h[1], avg_buy_price |-> RatOfInt(h[2]),
       currency |-> "EUR", broker |-> k[2]] :
      k \in SnapshotKeys, h \in SnapshotHoldings }

\* (quantity, price) of transactions: buys and sells.
TxAmounts == { << 10, 200 >>, << 5, 150 >>, << -5, 180 >>, << -10, 180 >> }

TxBrokers == { "IBKR ", "manual" }

TxDates == { NoneValue, "2024-01-01", "01-01-2024", "2024-01-02" }

Transactions ==
    { [symbol |-> " aapl", name |-> " aapl", quantity |-> a[1], price |-> a[2],
       currency |-> "USD", broker |-> b, date |-> d] :
      a \in TxAmounts, b \in TxBrokers, d \in TxDates }

SeqsUpTo(S, n) == UNION { [1..k -> S] : k \in 0..n }

\* ------------------------------------------------------------------ state
VARIABLES
    positions,       \* argument `positions` of the helper under test
    transactions,    \* argument `transactions` of the helper under test
    pos_index,       \* pos_index of apply_transactions_to_positions
    symbol_brokers,  \* symbol_brokers of apply_transactions_to_positions
    pending,         \* the part of the sorted log the loop has not reached
    applied,         \* locals of the loop's last iteration: tx, key, current
    returned,        \* the list apply_transactions_to_positions returned
    realized,        \* the value compute_realized_profit_loss returned
    pc,              \* "input", "loop", "returned", "realized"; "off" in Spec
    entry_data,      \* entry.data: the persisted configuration
    import_dir,      \* www/investment_tracker_imports
    coordinator,     \* the coordinator's _positions, _transactions and data
    update_task,     \* the _async_update_data call in flight and its locals
    asset_task,      \* the async_refresh_asset call in flight and its locals
    refresh_requested,       \* a refresh request the debouncer still holds
    DEFAULT_SYMBOL_MAPPING,  \* the per-broker part of the module-level dict
    issues,          \* symbols with an open repair issue
    calls,           \* number of commands of each kind issued so far
    history,         \* the outcome of the last cycles (observation only)
    imported_tx,     \* the list parse_transactions_csv returned for a file
    asset_types,     \* argument `asset_types` of compute_total_cash_invested
    helper_result    \* the value the helper under test returned

replay_vars ==
    << positions, transactions, pos_index, symbol_brokers, pending, applied,
       returned, realized, pc >>

orchestrator_vars ==
    << entry_data, import_dir, coordinator, update_task, asset_task,
       refresh_requested, DEFAULT_SYMBOL_MAPPING, issues, calls, history >>

helper_vars == << imported_tx, asset_types, helper_result >>

vars == << replay_vars, orchestrator_vars, helper_vars >>

\* The orchestrator is not running while the helpers are exercised alone.
OrchestratorOff ==
    /\ entry_data = << >>
    /\ import_dir = << >>
    /\ coordinator = << >>
    /\ update_task = << >>
    /\ asset_task = << >>
    /\ refresh_requested = FALSE
    /\ DEFAULT_SYMBOL_MAPPING = << >>
    /\ issues = {}
    /\ calls = << >>
    /\ history = << >>

\* The helpers of SpecHelpers are not exercised.
HelpersOff ==
    /\ imported_tx = << >>
    /\ asset_types = << >>
    /\ helper_result = << >>

\* ------------------------------------------------------------- SpecReplay
InitReplay ==
    /\ positions \in SeqsUpTo(SnapshotPositions, MaxSnapshot)
    /\ transactions = << >>
    /\ pos_index = << >>
    /\ symbol_brokers = {}
    /\ pending = << >>
    /\ applied = << >>
    /\ returned = << >>
    /\ realized = RZero
    /\ pc = "input"
    /\ OrchestratorOff
    /\ HelpersOff

\* The caller's log grows by one record before the helper is called.
AddTransaction ==
    /\ pc = "input"
    /\ Len(transactions) < MaxLog
    /\ \E tx \in Transactions : transactions' = Append(transactions, tx)
    /\ UNCHANGED << positions, pos_index, symbol_brokers, pending, applied,
                    returned, realized, pc, orchestrator_vars, helper_vars >>

\* apply_transactions_to_positions is entered: first loop and the sort.
ReplayBegin ==
    /\ pc = "input"
    /\ pos_index' = BuildIndex(<< >>, positions)
    /\ symbol_brokers' = BuildSymbolBrokers(positions)
    /\ pending' = SortByDate(transactions)
    /\ pc' = "loop"
    /\ UNCHANGED << positions, transactions, applied, returned, realized,
                    orchestrator_vars, helper_vars >>

\* One iteration of the second loop.
ReplayTx ==
    /\ pc = "loop"
    /\ pending # << >>
    /\ pos_index' = ApplyTx(pos_index, symbol_brokers, Head(pending))
    /\ applied' = << [tx |-> Head(pending),
                      key |-> << TxBroker(pos_index, symbol_brokers, Head(pending)),
                                 SymbolOf(Head(pending)) >>,
                      current |-> TxCurrent(pos_index, symbol_brokers,
                                            Head(pending))] >>
    /\ pending' = Tail(pending)
    /\ UNCHANGED << positions, transactions, symbol_brokers, returned,
                    realized, pc, orchestrator_vars, helper_vars >>

\* return list(pos_index.values())
ReplayReturn ==
    /\ pc = "loop"
    /\ pending = << >>
    /\ returned' = pos_index
    /\ pc' = "returned"
    /\ UNCHANGED << positions, transactions, pos_index, symbol_brokers,
                    pending, applied, realized, orchestrator_vars, helper_vars >>

\* The caller then calls compute_realized_profit_loss on the same log.
RealizedCall ==
    /\ pc = "returned"
    /\ realized' = compute_realized_profit_loss(transactions)
    /\ pc' = "realized"
    /\ UNCHANGED << positions, transactions, pos_index, symbol_brokers,
                    pending, applied, returned, orchestrator_vars, helper_vars >>

NextReplay ==
    \/ AddTransaction
    \/ ReplayBegin
    \/ ReplayTx
    \/ ReplayReturn
    \/ RealizedCall

SpecReplay == InitReplay /\ [][NextReplay]_vars

\* ============================================================ orchestrator
\* ------------------------------------------------------------------ bounds
\* Refresh cycles started.
MaxCycles == 3
\* remap_symbol service calls.
MaxRemaps == 1
\* Manual transactions entered through the options flow.
MaxManualTransactions == 1
\* refresh_asset service calls.
MaxAssetRefreshes == 1

\* ---------------------------------------------------------------- dicts
\* A dict[str, str] is a function; an optional value is << >> (None, or an
\* absent key) or << value >>.
EmptyMap == << >>

MapGet(m, k, default) == IF k \in DOMAIN m THEN m[k] ELSE default

MapPut(m, k, v) == [x \in DOMAIN m \cup {k} |-> IF x = k THEN v ELSE m[x]]

\* {**a, **b}, and a.update(b)
MapUpdate(a, b) ==
    [x \in DOMAIN a \cup DOMAIN b |-> IF x \in DOMAIN b THEN b[x] ELSE a[x]]

\* entry.data.get(key, {}) on an optional dict.
OrEmptyMap(opt) == IF opt = << >> THEN EmptyMap ELSE opt[1]

\* The elements of a sequence.
Range(s) == { s[i] : i \in DOMAIN s }

\* ---------------------------------------------- compute_total_cash_invested
\* normalized_types: symbol.strip().upper() -> (asset_type or "").strip()
\* .lower() over the truthy keys; the inputs of the model hold no two keys
\* with one normal form.
NormalizedTypes(types) ==
    IF types = << >> THEN EmptyMap
    ELSE LET given == { k \in DOMAIN types[1] : ~Falsy(k) }
         IN  [s \in { StripUpper(k) : k \in given } |->
                LET k == CHOOSE x \in given : StripUpper(x) = s
                IN  StripLower(OrElse(types[1][k], ""))]

\* Mutant of CashStep: a sell adds its proceeds to the cash invested.
CashStepCountsSells(total, tx, normalized_types) ==
    LET symbol == StripUpper(OrElse(tx.symbol, ""))
        asset_type == MapGet(normalized_types, symbol, "")
        quantity == IF tx.quantity < 0 THEN -tx.quantity ELSE tx.quantity
    IN  IF tx.quantity = 0 THEN total
        ELSE IF tx.price = 0 THEN total
        ELSE IF asset_type = "bond"
        THEN RAdd(total, RMulInt(Rat(tx.price, 100), quantity))
        ELSE RAdd(total, RatOfInt(tx.price * quantity))

\* One iteration of the loop.
CashStep(total, tx, normalized_types) ==
    LET symbol == StripUpper(OrElse(tx.symbol, ""))
        asset_type == MapGet(normalized_types, symbol, "")
    IN  IF tx.quantity <= 0 THEN total
        ELSE IF tx.price = 0 THEN total
        ELSE IF asset_type = "bond"
        THEN RAdd(total, RMulInt(Rat(tx.price, 100), tx.quantity))
        ELSE RAdd(total, RatOfInt(tx.price * tx.quantity))

RECURSIVE CashLoop(_, _, _)
CashLoop(total, queue, normalized_types) ==
    IF queue = << >> THEN total
    ELSE CashLoop(CashStep(total, Head(queue), normalized_types), Tail(queue),
                  normalized_types)

compute_total_cash_invested(txs, types) ==
    CashLoop(RZero, txs, NormalizedTypes(types))

\* ------------------------------------------------------ the import files
\* Rows of the positions file Degiro.csv (header symbol,name,type,quantity,
\* avg_buy_price,currency,broker).
PositionsCsvRows ==
    << [symbol |-> "AAPL", name |-> "", type |-> "etf", quantity |-> 5,
        avg_buy_price |-> 120, currency |-> "EUR", broker |-> ""] >>

\* Rows of the transactions file ibkr_transactions.csv (Revolut header
\* Date,Ticker,Type,Quantity,Price per share,Currency). The first row is
\* listed twice in the export.
TransactionsCsvRows ==
    << [Date |-> "2024-01-01", Ticker |-> "AAPL", Type |-> "BUY - MARKET",
        Quantity |-> 10, Price |-> 200, Currency |-> "USD"],
       [Date |-> "2024-01-01", Ticker |-> "AAPL", Type |-> "BUY - MARKET",
        Quantity |-> 10, Price |-> 200, Currency |-> "USD"],
       [Date |-> "2024-01-02", Ticker |-> "AAPL", Type |-> "SELL - MARKET",
        Quantity |-> 4, Price |-> 180, Currency |-> "USD"] >>

PositionsFile == "Degiro.csv"
TransactionsFile == "ibkr_transactions.csv"
ImportFiles == { PositionsFile, TransactionsFile }

\* import_file.name.endswith("_transactions.csv")
IsTransactionsFile(name) == name = TransactionsFile

\* import_file.stem, and tx_file.stem.replace("_transactions", "")
FileBroker(name) ==
    CASE name = PositionsFile -> "Degiro"
      [] name = TransactionsFile -> "ibkr"

\* Place of a processed file's name in sorted(import_dir.glob(...)).
NameRank(name) ==
    CASE name = PositionsFile -> 1
      [] name = TransactionsFile -> 2

\* parse_positions_csv: rows without a `symbol` column value are skipped, so
\* a file of transactions yields no position.
parse_positions_csv(name, default_broker) ==
    IF IsTransactionsFile(name) THEN << >>
    ELSE LET kept == SelectSeq(PositionsCsvRows, LAMBDA row : row.symbol # "")
         IN  [i \in DOMAIN kept |->
                [symbol |-> StripUpper(kept[i].symbol),
                 name |-> OrElse(kept[i].name, kept[i].symbol),
                 type |-> kept[i].type,
                 manual_type |-> FALSE,
                 quantity |-> kept[i].quantity,
                 avg_buy_price |-> RatOfInt(kept[i].avg_buy_price),
                 currency |-> kept[i].currency,
                 broker |-> OrElse(kept[i].broker,
                                   OrElse(default_broker, "csv"))]]

\* "SELL" in tx_type
IsSell(tx_type) == tx_type = "SELL - MARKET"

\* parse_transactions_csv, Revolut layout.
parse_transactions_csv(name, broker) ==
    IF ~IsTransactionsFile(name) THEN << >>
    ELSE LET kept == SelectSeq(TransactionsCsvRows,
                               LAMBDA row : StripUpper(row.Ticker) # "")
         IN  [i \in DOMAIN kept |->
                [symbol |-> StripUpper(kept[i].Ticker),
                 name |-> StripUpper(kept[i].Ticker),
                 quantity |-> IF IsSell(kept[i].Type)
                              THEN 0 - Abs(kept[i].Quantity)
                              ELSE Abs(kept[i].Quantity),
                 price |-> kept[i].Price,
                 currency |-> kept[i].Currency,
                 broker |-> broker,
                 date |-> kept[i].Date]]

\* The transaction the options flow records: a buy of 5 AAPL.
ManualTransactionInput ==
    [symbol |-> " aapl", quantity |-> 5, price |-> 180, currency |-> "USD",
     broker |-> "", date |-> "2024-01-03T00:00:00Z"]

\* ------------------------------------------------------- _dedupe_transactions
\* The key of a transaction; str(x or "") of a number is its own text, the
\* records of the model carry no "type".
DedupeKey(tx) ==
    << StripUpper(OrElse(tx.symbol, "")),
       StripLower(OrElse(tx.broker, "unknown")),
       OrElse(tx.date, ""), tx.quantity, tx.price, "" >>

\* Mutant of DedupeFrom: a transaction is dropped only when it repeats the
\* one kept just before it.
RECURSIVE DedupeFromAdjacent(_, _, _)
DedupeFromAdjacent(seen, unique, rest) ==
    IF rest = << >> THEN unique
    ELSE IF unique # << >>
            /\ DedupeKey(Head(rest)) = DedupeKey(unique[Len(unique)])
         THEN DedupeFromAdjacent(seen, unique, Tail(rest))
         ELSE DedupeFromAdjacent(seen, Append(unique, Head(rest)), Tail(rest))

RECURSIVE DedupeFrom(_, _, _)
DedupeFrom(seen, unique, rest) ==
    IF rest = << >> THEN unique
    ELSE IF DedupeKey(Head(rest)) \in seen
         THEN DedupeFrom(seen, unique, Tail(rest))
         ELSE DedupeFrom(seen \cup {DedupeKey(Head(rest))},
                         Append(unique, Head(rest)), Tail(rest))

dedupe_transactions(txs) == DedupeFrom({}, << >>, txs)

\* ------------------------------------------------------------ _merge_positions
RECURSIVE MergeCurrent(_, _)
MergeCurrent(index, current) ==
    IF current = << >> THEN index
    ELSE MergeCurrent(DictPut(index, PosKey(Head(current)), Head(current)),
                      Tail(current))

RECURSIVE MergeIncoming(_, _)
MergeIncoming(index, incoming) ==
    IF incoming = << >> THEN index
    ELSE LET pos == Head(incoming)
             existing == DictGet(index, PosKey(pos))
             merged == IF existing.manual_type
                       THEN [pos EXCEPT !.manual_type = TRUE,
                                        !.type = existing.type]
                       ELSE pos
         IN  MergeIncoming(DictPut(index, PosKey(pos), merged), Tail(incoming))

merge_positions(current, incoming) ==
    MergeIncoming(MergeCurrent(<< >>, current), incoming)

\* ------------------------------------------------------------ symbol mapping
\* DEFAULT_SYMBOL_MAPPING["default"]
DefaultMap == ("XAU" :> "XAUUSD=X") @@ ("VWCE" :> "VWCE.DE")

\* map_symbol(broker, symbol, mapping) on the module-level dict, of which
\* `brokers` is the per-broker part.
map_symbol(broker, symbol, brokers) ==
    MapGet(MapGet(brokers, broker, EmptyMap), symbol,
           MapGet(DefaultMap, symbol, symbol))

\* symbol_mapping = get_default_symbol_mapping()
\* if stored_mapping: symbol_mapping.setdefault(broker, {}).update(stored_mapping)
UpdateDefaultMapping(brokers, broker, stored_mapping) ==
    IF DOMAIN stored_mapping = {} THEN brokers
    ELSE MapPut(brokers, broker,
                MapUpdate(MapGet(brokers, broker, EmptyMap), stored_mapping))

\* SequenceMatcher(None, symbol.upper(), cand.upper()).ratio() on the texts
\* of the model, in whole percent rounded down: score >= 0.9 is
\* SimilarityPercent >= 90.
SimilarityPercent(symbol, cand) ==
    CASE symbol = cand -> 100
      [] << symbol, cand >> = << "AAPL", "AAPL.MX" >> -> 72
      [] << symbol, cand >> = << "IE00B4L5Y983", "IE00B4L5Y98" >> -> 95
      [] << symbol, cand >> = << "IE00B4L5Y983", "IE00B4L5Y983.F" >> -> 92
      [] << symbol, cand >> = << "IE00B4L5Y983", "IE00B4L5Y983.DE" >> -> 88
      [] << symbol, cand >> = << "IE00B4L5Y983", "IE00B4L5" >> -> 80
      [] OTHER -> 0

\* ------------------------------------------------------------ market data
\* A row of Yahoo's search answer.
SearchHitApple ==
    [symbol |-> "AAPL", quoteType |-> "EQUITY", sector |-> "Technology",
     industry |-> "Consumer Electronics"]

\* What search_symbols can answer for a symbol: nothing (also on any network
\* failure), or one row.
SearchAnswers == { << >>, << SearchHitApple >> }

\* What a provider can answer for one mapped symbol during the valuation:
\* its quote (price None when unknown) and, for Yahoo, the search answer of
\* the enrichment.
YahooAnswers ==
    { [price |-> << RatOfInt(110) >>, currency |-> "USD",
       search |-> << SearchHitApple >>],
      [price |-> << >>, currency |-> NoneValue, search |-> << >>] }

StooqAnswers ==
    { [price |-> << RatOfInt(110) >>, currency |-> NoneValue, search |-> << >>],
      [price |-> << >>, currency |-> NoneValue, search |-> << >>] }

NoAnswer == [price |-> << >>, currency |-> NoneValue, search |-> << >>]

\* text.lower() on the classification texts of the model.
LowerText(text) ==
    CASE text = "EQUITY" -> "equity"
      [] text = "ETF" -> "etf"
      [] text = "Technology" -> "technology"
      [] text = "Consumer Electronics" -> "consumer electronics"
      [] text = NoneValue -> ""
      [] OTHER -> text

\* The classification tokens a lower-cased text of the model holds as a
\* proper part.
TokensIn(text) ==
    CASE text = "bond etf" -> { "bond", "etf" }
      [] text = "crypto cash" -> { "crypto", "cash" }
      [] text = "commodity stock" -> { "commodity", "stock" }
      [] OTHER -> {}

\* `sub in text` on the lower-cased classification texts of the model.
Contains(sub, text) == sub # "" /\ (sub = text \/ sub \in TokensIn(text))

\* Mutant of map_yahoo_category: the bond rule is tried before the etf rule
\* and the cash rule before the crypto rule.
map_yahoo_category_reordered(yahoo_type, sector, industry) ==
    LET yt == LowerText(yahoo_type)
        sec == LowerText(sector)
        ind == LowerText(industry)
    IN  IF yt = "bond" \/ Contains("bond", ind)
           \/ Contains("fixed income", sec)
        THEN "bond"
        ELSE IF yt \in {"etf", "exchange-traded fund"} \/ Contains("etf", ind)
        THEN "etf"
        ELSE IF yt = "commodity" \/ Contains("commodity", sec)
                \/ Contains("commodity", ind)
        THEN "commodity"
        ELSE IF yt = "cash" \/ Contains("cash", ind) \/ Contains("cash", sec)
        THEN "cash"
        ELSE IF yt \in {"cryptocurrency", "crypto"} \/ Contains("crypto", ind)
                \/ Contains("crypto", sec)
        THEN "crypto"
        ELSE IF yt \in {"equity", "stock"} \/ Contains("stock", ind)
                \/ Contains("stock", sec) \/ Contains("equity", sec)
                \/ Contains("equity", ind)
        THEN "equity"
        ELSE IF sec = "" /\ ind = "" THEN "equity"
        ELSE "other"

map_yahoo_category(yahoo_type, sector, industry) ==
    LET yt == LowerText(yahoo_type)
        sec == LowerText(sector)
        ind == LowerText(industry)
    IN  IF yt \in {"etf", "exchange-traded fund"} \/ Contains("etf", ind)
        THEN "etf"
        ELSE IF yt = "bond" \/ Contains("bond", ind)
                \/ Contains("fixed income", sec)
        THEN "bond"
        ELSE IF yt = "commodity" \/ Contains("commodity", sec)
                \/ Contains("commodity", ind)
        THEN "commodity"
        ELSE IF yt \in {"cryptocurrency", "crypto"} \/ Contains("crypto", ind)
                \/ Contains("crypto", sec)
        THEN "crypto"
        ELSE IF yt = "cash" \/ Contains("cash", ind) \/ Contains("cash", sec)
        THEN "cash"
        ELSE IF yt \in {"equity", "stock"} \/ Contains("stock", ind)
                \/ Contains("stock", sec) \/ Contains("equity", sec)
                \/ Contains("equity", ind)
        THEN "equity"
        ELSE IF sec = "" /\ ind = "" THEN "equity"
        ELSE "other"

\* ------------------------------------------------------- orchestrator state
\* The position the config flow's manual set-up stores.
ManualSetupPosition ==
    [symbol |-> "AAPL", name |-> "Apple", type |-> "equity",
     manual_type |-> FALSE, quantity |-> 10, avg_buy_price |-> RatOfInt(100),
     currency |-> "USD", broker |-> "ibkr"]

Providers == { "yahoo_public", "stooq" }

\* entry.data as the config flow creates it: no "transactions", no
\* "symbol_mapping" and no "unmapped_symbols" key.
NewEntries ==
    { [positions |-> p, transactions |-> << >>, symbol_mapping |-> << >>,
       unmapped_symbols |-> << >>, market_data_provider |-> pr,
       broker_name |-> "ibkr"] :
      p \in { << >>, << ManualSetupPosition >> }, pr \in Providers }

\* InvestmentTrackerCoordinator(hass, entry)
NewCoordinator(entry) ==
    [positions |-> entry.positions,
     transactions |-> dedupe_transactions(entry.transactions),
     data |-> << >>]

\* No _async_update_data call in flight.
IdleTask ==
    [pc |-> "idle", positions |-> << >>, transactions |-> << >>,
     symbols |-> << >>, cursor |-> 0, stored_alias |-> FALSE,
     symbol_map |-> EmptyMap, unresolved_symbols |-> {},
     mapping_updates |-> EmptyMap, start_data |-> << >>,
     others_wrote |-> FALSE]

\* No async_refresh_asset call in flight.
IdleAssetTask ==
    [pc |-> "idle", symbol |-> "", broker |-> NoneValue, assets |-> << >>,
     mapped_symbol |-> "", seen |-> 0]

\* The suspension points of _async_update_data.
AwaitPoints ==
    { "await_parse_positions", "await_parse_transactions",
      "await_parse_processed", "await_search", "await_quotes" }

\* The state the handlers read and write, as one record.
World ==
    [e |-> entry_data, d |-> import_dir, c |-> coordinator, t |-> update_task,
     rq |-> refresh_requested, dm |-> DEFAULT_SYMBOL_MAPPING, iss |-> issues,
     h |-> history]

Becomes(W) ==
    /\ entry_data' = W.e
    /\ import_dir' = W.d
    /\ coordinator' = W.c
    /\ update_task' = W.t
    /\ refresh_requested' = W.rq
    /\ DEFAULT_SYMBOL_MAPPING' = W.dm
    /\ issues' = W.iss
    /\ history' = W.h

\* The update listener is registered once the first refresh has published.
Listening(W) == W.c.data # << >>

\* hass.config_entries.async_update_entry(entry, data=data): a changed entry
\* is stored and its update listener requests a refresh.
async_update_entry(W, data) ==
    [W EXCEPT !.e = data,
              !.rq = W.rq \/ (data # W.e /\ Listening(W))]

\* coordinator._update_entry_data(overrides), `data` being
\* {**entry.data, **overrides}.
update_entry_data(W, data, overrides_transactions) ==
    async_update_entry(W,
        IF ~overrides_transactions /\ W.c.transactions # << >>
        THEN [data EXCEPT !.transactions = W.c.transactions]
        ELSE data)

\* sorted(set(symbols))
SymbolRank(symbol) ==
    CASE symbol = "AAPL" -> 1
      [] symbol = "MSFT" -> 2
      [] OTHER -> 3

RECURSIVE SortedSymbols(_)
SortedSymbols(S) ==
    IF S = {} THEN << >>
    ELSE LET m == CHOOSE x \in S : \A y \in S : SymbolRank(x) <= SymbolRank(y)
         IN  << m >> \o SortedSymbols(S \ {m})

\* symbols = [pos.get("symbol") for pos in positions if pos.get("symbol")]
\* symbols = [s.replace("$", "").strip().upper() for s in symbols if s]
SymbolsOf(poslist) ==
    LET held == SelectSeq(poslist, LAMBDA pos : ~Falsy(pos.symbol))
    IN  [i \in DOMAIN held |-> StripUpper(held[i].symbol)]

\* position_lookup.get(symbol, {}): the last position of that symbol.
PositionLookup(poslist, symbol) ==
    LET hits == { i \in DOMAIN poslist :
                    StripUpper(OrElse(poslist[i].symbol, "")) = symbol }
    IN  IF symbol = "" \/ hits = {} THEN EmptyPosition
        ELSE poslist[CHOOSE i \in hits : \A j \in hits : j <= i]

\* f"{symbol}{str(currency).strip().upper()}" on the texts of the model.
CommodityTicker(symbol, currency) ==
    CASE << symbol, currency >> = << "AAPL", "USD" >> -> "AAPLUSD"
      [] << symbol, currency >> = << "XAU", "USD" >> -> "XAUUSD"
      [] << symbol, currency >> = << "AAPL", "EUR" >> -> "AAPLEUR"
      [] OTHER -> symbol

\* ------------------------------------------------------ valuation of a cycle
\* The per-position loop: `bound` tells whether short_name and long_name
\* have been assigned by an earlier iteration. The result is the asset list,
\* or the failure of line 489 reading the names before any assignment.
RECURSIVE BuildAssets(_, _, _, _)
BuildAssets(rest, bound, assets, ctx) ==
    IF rest = << >> THEN [failed |-> FALSE, assets |-> assets]
    ELSE
    LET pos == Head(rest)
        symbol == pos.symbol
        mapped_symbol == MapGet(ctx.symbol_map, symbol, symbol)
        quote == MapGet(ctx.market, mapped_symbol, NoAnswer)
        enrich == ctx.provider = "yahoo_public" /\ mapped_symbol # ""
        hit == enrich /\ quote.search # << >>
        sector == IF hit THEN OrElse(quote.search[1].sector, "unknown")
                  ELSE "unknown"
        industry == IF hit THEN OrElse(quote.search[1].industry, "unknown")
                    ELSE "unknown"
        yahoo_type == IF hit THEN quote.search[1].quoteType ELSE NoneValue
        asset_type == IF pos.manual_type THEN pos.type
                      ELSE map_yahoo_category(yahoo_type, sector, industry)
        price == quote.price
        market_value ==
            IF price = << >> THEN << >>
            ELSE IF asset_type = "bond"
                 THEN << RMulInt(RDivInt(price[1], 100), pos.quantity) >>
                 ELSE << RMulInt(price[1], pos.quantity) >>
        asset == [symbol |-> symbol,
                  name |-> IF enrich THEN symbol ELSE pos.name,
                  type |-> asset_type,
                  quantity |-> pos.quantity,
                  avg_buy_price |-> pos.avg_buy_price,
                  current_price |-> price,
                  currency |-> OrElse(quote.currency, pos.currency),
                  market_value |-> market_value,
                  broker |-> pos.broker,
                  unmapped |-> symbol \in ctx.unresolved_symbols]
    IN  IF Falsy(symbol) THEN BuildAssets(Tail(rest), bound, assets, ctx)
        ELSE IF enrich /\ ~(bound \/ hit)
             THEN [failed |-> TRUE, assets |-> assets]
             ELSE BuildAssets(Tail(rest), bound \/ hit,
                              Append(assets, asset), ctx)

\* What the cycle publishes about each asset's holding.
Holdings(assets) ==
    [i \in DOMAIN assets |->
       << assets[i].symbol, assets[i].broker, assets[i].quantity,
          assets[i].avg_buy_price >>]

\* The persisted snapshot and log.
SnapshotAndLog(entry) == << entry.positions, entry.transactions >>

\* The persisted configuration a cycle may write.
Persisted(entry) ==
    << entry.positions, entry.transactions, entry.symbol_mapping,
       entry.unmapped_symbols >>

\* Mutant of IssuesAfter: warnings are raised and never deleted.
IssuesAfterRaisedOnly(open, prev_unmapped, new_unmapped) ==
    open \cup new_unmapped

\* Lines 605-631 (165-192 in refresh_asset): an issue is created for every
\* symbol of new_unmapped and deleted for every symbol of to_remove.
IssuesAfter(open, prev_unmapped, new_unmapped) ==
    (open \cup new_unmapped) \ (prev_unmapped \ new_unmapped)

\* `except Exception as err: raise UpdateFailed`: the cycle ends without a
\* publication. A failed first refresh fails the set-up, which the host
\* retries with a new coordinator.
Fail(W) ==
    [W EXCEPT !.t = IdleTask,
              !.h.failure = << [at_start |-> Persisted(W.t.start_data[1]),
                                at_failure |-> Persisted(W.e),
                                others_wrote |-> W.t.others_wrote] >>,
              !.c = IF W.c.data = << >> THEN NewCoordinator(W.e) ELSE W.c,
              !.rq = W.rq \/ W.c.data = << >>]

\* Lines 431-650, and the publication of the returned snapshot.
Finish(W, market) ==
    LET built == BuildAssets(W.t.positions, FALSE, << >>,
                     [symbol_map |-> W.t.symbol_map, market |-> market,
                      provider |-> W.e.market_data_provider,
                      unresolved_symbols |-> W.t.unresolved_symbols])
        unmapped_unique ==
            SortedSymbols({ a.symbol : a \in { x \in Range(built.assets) :
                                                 x.unmapped } })
        prev_unmapped == IF W.e.unmapped_symbols = << >> THEN {}
                         ELSE Range(W.e.unmapped_symbols[1])
        W1 == IF W.e.unmapped_symbols # << unmapped_unique >>
              THEN update_entry_data(W,
                       [W.e EXCEPT !.unmapped_symbols = << unmapped_unique >>],
                       FALSE)
              ELSE W
    IN  IF built.failed THEN Fail(W)
        ELSE [W1 EXCEPT
                !.iss = IssuesAfter(W.iss, prev_unmapped,
                                    Range(unmapped_unique)),
                !.c.data = << [assets |-> built.assets,
                               unmapped_symbols |-> unmapped_unique] >>,
                !.h.publications = W.h.publications + 1,
                !.h.last_cycle =
                    << [at_start |-> SnapshotAndLog(W.t.start_data[1]),
                        at_end |-> SnapshotAndLog(W1.e),
                        others_wrote |-> W.t.others_wrote,
                        holdings |-> Holdings(built.assets)] >>,
                !.t = IdleTask]

\* --------------------------------------------------- the cycle, step by step
\* Lines 210-229: the locals of a new _async_update_data call.
Begin(W) ==
    LET txs == dedupe_transactions(W.e.transactions)
    IN  [W EXCEPT
           !.c.transactions = txs,
           !.t = [IdleTask EXCEPT
                    !.pc = "import_positions",
                    !.positions = IF W.e.positions # << >>
                                  THEN W.e.positions ELSE W.c.positions,
                    !.transactions = txs,
                    !.start_data = << W.e >>]]

\* Lines 256-262, after parse_positions_csv has answered.
ParsedPositions(W) ==
    LET merged == merge_positions(W.t.positions,
                      parse_positions_csv(PositionsFile,
                                          FileBroker(PositionsFile)))
        W1 == update_entry_data(W, [W.e EXCEPT !.positions = merged], FALSE)
    IN  [W1 EXCEPT !.t.positions = merged,
                   !.t.pc = "import_transactions",
                   !.d.csv = W.d.csv \ {PositionsFile},
                   !.d.processed = W.d.processed \cup {PositionsFile}]

\* Lines 267-276, after parse_transactions_csv has answered.
ParsedTransactions(W) ==
    LET incoming_tx == parse_transactions_csv(TransactionsFile,
                                              FileBroker(TransactionsFile))
        txs == dedupe_transactions(W.t.transactions \o incoming_tx)
        W1 == IF incoming_tx = << >> THEN W
              ELSE update_entry_data(
                       [W EXCEPT !.c.transactions = txs, !.t.transactions = txs],
                       [W.e EXCEPT !.transactions = txs], TRUE)
    IN  [W1 EXCEPT !.t.pc = "import_processed",
                   !.d.csv = W.d.csv \ {TransactionsFile},
                   !.d.processed = W.d.processed \cup {TransactionsFile}]

\* processed[-1] of sorted(import_dir.glob("*.csv.processed.*"))
LastProcessed(names) ==
    CHOOSE f \in names : \A g \in names : NameRank(g) <= NameRank(f)

\* Lines 292-330 and the provider branches without a suspension point.
Resolve(W) ==
    LET replayed == IF W.t.transactions # << >>
                    THEN apply_transactions_to_positions(W.t.positions,
                                                         W.t.transactions)
                    ELSE W.t.positions
        syms == SymbolsOf(replayed)
        brokers == UpdateDefaultMapping(W.dm, W.e.broker_name,
                                        OrEmptyMap(W.e.symbol_mapping))
    IN  IF W.e.market_data_provider = "yahoo_public"
        THEN [W EXCEPT !.dm = brokers,
                       !.t.positions = replayed,
                       !.t.symbols = syms,
                       !.t.cursor = 1,
                       !.t.stored_alias = W.e.symbol_mapping # << >>,
                       !.t.pc = "resolve_symbols"]
        ELSE [W EXCEPT !.dm = brokers,
                       !.t.positions = replayed,
                       !.t.symbols = syms,
                       !.t.symbol_map =
                           [s \in Range(syms) |->
                              map_symbol(W.e.broker_name, s, brokers)],
                       !.t.pc = "fetch_quotes"]

\* Lines 284-287, after parse_positions_csv has answered.
ParsedProcessed(W) ==
    LET last_file == LastProcessed(W.d.processed)
        parsed == parse_positions_csv(last_file, FileBroker(last_file))
        W1 == update_entry_data(W, [W.e EXCEPT !.positions = parsed], FALSE)
    IN  Resolve([W1 EXCEPT !.t.positions = parsed])

\* The dict `stored_mapping` names: the entry's own dict when the entry had
\* one at line 320, a fresh empty dict otherwise.
StoredMapping(W) ==
    IF W.t.stored_alias THEN OrEmptyMap(W.e.symbol_mapping) ELSE EmptyMap

\* Mutant of Searched: the first candidate scoring >= 0.9 is accepted also
\* when others score as high.
SearchedFirstHigh(W, results) ==
    LET symbol == W.t.symbols[W.t.cursor]
        high == SelectSeq(results,
                    LAMBDA r : SimilarityPercent(symbol, r.symbol) >= 90)
    IN  IF Len(high) >= 1
        THEN [W EXCEPT
                !.t.symbol_map = MapPut(W.t.symbol_map, symbol, high[1].symbol),
                !.t.mapping_updates =
                    MapPut(W.t.mapping_updates, symbol, high[1].symbol),
                !.t.cursor = W.t.cursor + 1,
                !.t.pc = "resolve_symbols"]
        ELSE [W EXCEPT
                !.t.symbol_map = MapPut(W.t.symbol_map, symbol, symbol),
                !.t.unresolved_symbols = W.t.unresolved_symbols \cup {symbol},
                !.t.cursor = W.t.cursor + 1,
                !.t.pc = "resolve_symbols"]

\* Lines 353-368, after search_symbols has answered.
Searched(W, results) ==
    LET symbol == W.t.symbols[W.t.cursor]
        high == SelectSeq(results,
                    LAMBDA r : SimilarityPercent(symbol, r.symbol) >= 90)
    IN  IF Len(high) = 1
        THEN [W EXCEPT
                !.t.symbol_map = MapPut(W.t.symbol_map, symbol, high[1].symbol),
                !.t.mapping_updates =
                    MapPut(W.t.mapping_updates, symbol, high[1].symbol),
                !.t.cursor = W.t.cursor + 1,
                !.t.pc = "resolve_symbols"]
        ELSE [W EXCEPT
                !.t.symbol_map = MapPut(W.t.symbol_map, symbol, symbol),
                !.t.unresolved_symbols = W.t.unresolved_symbols \cup {symbol},
                !.t.cursor = W.t.cursor + 1,
                !.t.pc = "resolve_symbols"]

\* Lines 375-377.
StoreMappingUpdates(W) ==
    LET new_mapping == IF DOMAIN StoredMapping(W) # {}
                       THEN MapUpdate(StoredMapping(W), W.t.mapping_updates)
                       ELSE W.t.mapping_updates
        W1 == IF DOMAIN W.t.mapping_updates # {}
              THEN update_entry_data(W,
                       [W.e EXCEPT !.symbol_mapping = << new_mapping >>], FALSE)
              ELSE W
    IN  [W1 EXCEPT !.t.pc = "fetch_quotes"]

\* Lines 334-352 for the symbol under the cursor: a commodity and a symbol
\* with a stored mapping are resolved at once, any other is searched.
ResolveNext(W) ==
    LET symbol == W.t.symbols[W.t.cursor]
        pos == PositionLookup(W.t.positions, symbol)
        existing == MapGet(StoredMapping(W), symbol, "")
        mapped ==
            IF pos.type = "commodity"
            THEN CommodityTicker(symbol, OrElse(pos.currency, "USD"))
            ELSE existing
    IN  IF pos.type = "commodity" \/ existing # ""
        THEN [W EXCEPT
                !.t.symbol_map = MapPut(W.t.symbol_map, symbol, mapped),
                !.t.cursor = W.t.cursor + 1]
        ELSE [W EXCEPT !.t.pc = "await_search"]

\* The code from the task's position up to its next suspension point, or to
\* its end.
RECURSIVE RunToAwait(_)
RunToAwait(W) ==
    CASE W.t.pc = "import_positions" ->
           IF PositionsFile \in W.d.csv
           THEN [W EXCEPT !.t.pc = "await_parse_positions"]
           ELSE RunToAwait([W EXCEPT !.t.pc = "import_transactions"])
      [] W.t.pc = "import_transactions" ->
           IF TransactionsFile \in W.d.csv
           THEN [W EXCEPT !.t.pc = "await_parse_transactions"]
           ELSE RunToAwait([W EXCEPT !.t.pc = "import_processed"])
      [] W.t.pc = "import_processed" ->
           IF W.t.positions = << >> /\ W.d.processed # {}
           THEN [W EXCEPT !.t.pc = "await_parse_processed"]
           ELSE RunToAwait(Resolve(W))
      [] W.t.pc = "resolve_symbols" ->
           IF W.t.cursor > Len(W.t.symbols)
           THEN RunToAwait(StoreMappingUpdates(W))
           ELSE RunToAwait(ResolveNext(W))
      [] W.t.pc = "fetch_quotes" ->
           IF W.e.market_data_provider = "yahoo_public"
              /\ DOMAIN W.t.symbol_map = {}
           THEN Finish(W, EmptyMap)
           ELSE [W EXCEPT !.t.pc = "await_quotes"]
      [] OTHER -> W

\* The symbols the providers are asked about, and what they can answer.
MappedSymbols(task) == { task.symbol_map[s] : s \in DOMAIN task.symbol_map }

MarketAnswers(provider, mapped) ==
    [mapped -> IF provider = "yahoo_public" THEN YahooAnswers
               ELSE StooqAnswers]

\* ------------------------------------------------------------------ actions
\* The debouncer starts the requested refresh: one _async_update_data call at
\* a time, up to its first suspension point.
CycleStart ==
    /\ refresh_requested
    /\ update_task.pc = "idle"
    /\ calls.cycles < MaxCycles
    /\ Becomes(RunToAwait(Begin([World EXCEPT !.rq = FALSE])))
    /\ calls' = [calls EXCEPT !.cycles = @ + 1]
    /\ UNCHANGED << replay_vars, helper_vars, asset_task >>

CycleParsedPositions ==
    /\ update_task.pc = "await_parse_positions"
    /\ Becomes(RunToAwait(ParsedPositions(World)))
    /\ UNCHANGED << replay_vars, helper_vars, asset_task, calls >>

CycleParsedTransactions ==
    /\ update_task.pc = "await_parse_transactions"
    /\ Becomes(RunToAwait(ParsedTransactions(World)))
    /\ UNCHANGED << replay_vars, helper_vars, asset_task, calls >>

CycleParsedProcessed ==
    /\ update_task.pc = "await_parse_processed"
    /\ Becomes(RunToAwait(ParsedProcessed(World)))
    /\ UNCHANGED << replay_vars, helper_vars, asset_task, calls >>

CycleSearched ==
    /\ update_task.pc = "await_search"
    /\ \E results \in SearchAnswers :
         Becomes(RunToAwait(Searched(World, results)))
    /\ UNCHANGED << replay_vars, helper_vars, asset_task, calls >>

CycleQuoted ==
    /\ update_task.pc = "await_quotes"
    /\ \E market \in MarketAnswers(entry_data.market_data_provider,
                                   MappedSymbols(update_task)) :
         Becomes(Finish(World, market))
    /\ UNCHANGED << replay_vars, helper_vars, asset_task, calls >>

\* An awaited call raises, or the host cancels the task while it is suspended.
CycleFail ==
    /\ update_task.pc \in AwaitPoints
    /\ Becomes(Fail(World))
    /\ UNCHANGED << replay_vars, helper_vars, asset_task, calls >>

\* An operation other than the cycle has changed entry.data while a cycle is
\* in flight.
NoteOtherWriter(W, before) ==
    IF W.t.pc # "idle" /\ W.e # before
    THEN [W EXCEPT !.t.others_wrote = TRUE]
    ELSE W

\* ---- refresh_asset
AssetRefreshSymbols == { "AAPL", "MSFT" }

\* asset.get("symbol") == symbol and
\* (not target_broker or asset.get("broker") == target_broker)
IsTarget(asset, symbol, target_broker) ==
    asset.symbol = symbol
    /\ (target_broker = NoneValue \/ asset.broker = target_broker)

\* async_refresh_asset up to `await ... get_stooq_quotes` (lines 96-122). A
\* call for a symbol that is no asset returns without an effect and is not
\* counted.
RefreshAssetCall ==
    /\ asset_task.pc = "idle"
    /\ coordinator.data # << >>
    /\ calls.asset_refreshes < MaxAssetRefreshes
    /\ \E text \in AssetRefreshSymbols :
         LET symbol == StripUpper(text)
             target_broker == NoneValue
             assets == coordinator.data[1].assets
             hits == { i \in DOMAIN assets :
                         IsTarget(assets[i], symbol, target_broker) }
             target_asset == assets[CHOOSE i \in hits : \A j \in hits : i <= j]
             broker_name == OrElse(target_broker,
                                OrElse(target_asset.broker,
                                       entry_data.broker_name))
             brokers == UpdateDefaultMapping(DEFAULT_SYMBOL_MAPPING,
                            broker_name, OrEmptyMap(entry_data.symbol_mapping))
         IN  IF assets = << >>
             THEN /\ refresh_requested' = TRUE
                  /\ calls' = [calls EXCEPT !.asset_refreshes = @ + 1]
                  /\ UNCHANGED << asset_task, DEFAULT_SYMBOL_MAPPING >>
             ELSE IF hits = {}
             THEN UNCHANGED << refresh_requested, asset_task,
                               DEFAULT_SYMBOL_MAPPING, calls >>
             ELSE /\ DEFAULT_SYMBOL_MAPPING' = brokers
                  /\ calls' = [calls EXCEPT !.asset_refreshes = @ + 1]
                  /\ asset_task' =
                       [pc |-> "await_quote", symbol |-> symbol,
                        broker |-> target_broker, assets |-> assets,
                        mapped_symbol |-> map_symbol(broker_name, symbol,
                                                     brokers),
                        seen |-> history.publications]
                  /\ UNCHANGED refresh_requested
    /\ UNCHANGED << replay_vars, helper_vars, entry_data, import_dir, coordinator,
                    update_task, issues, history >>

\* The asset list of lines 127-142.
RefreshedAssets(task, price, currency, target_currency) ==
    [i \in DOMAIN task.assets |->
       IF IsTarget(task.assets[i], task.symbol, task.broker)
       THEN [task.assets[i] EXCEPT
               !.current_price = price,
               !.currency = OrElse(currency, target_currency),
               !.unmapped = price = << >>,
               !.market_value =
                   IF price = << >> THEN << >>
                   ELSE << RMulInt(price[1], task.assets[i].quantity) >>]
       ELSE task.assets[i]]

\* async_refresh_asset from the quote's arrival to its end (lines 123-205).
RefreshAssetQuoted ==
    /\ asset_task.pc = "await_quote"
    /\ \E quote \in StooqAnswers :
         LET hits == { i \in DOMAIN asset_task.assets :
                         IsTarget(asset_task.assets[i], asset_task.symbol,
                                  asset_task.broker) }
             target_asset ==
                 asset_task.assets[CHOOSE i \in hits : \A j \in hits : i <= j]
             new_assets == RefreshedAssets(asset_task, quote.price,
                               quote.currency, target_asset.currency)
             unmapped_unique ==
                 SortedSymbols({ a.symbol : a \in { x \in Range(new_assets) :
                                   x.unmapped /\ ~Falsy(x.symbol) } })
             prev_unmapped == IF entry_data.unmapped_symbols = << >> THEN {}
                              ELSE Range(entry_data.unmapped_symbols[1])
             W1 == IF entry_data.unmapped_symbols # << unmapped_unique >>
                   THEN update_entry_data(World,
                            [entry_data EXCEPT
                               !.unmapped_symbols = << unmapped_unique >>],
                            FALSE)
                   ELSE World
             W2 == NoteOtherWriter(W1, entry_data)
         IN  Becomes([W2 EXCEPT
                 !.iss = IssuesAfter(issues, prev_unmapped,
                                     Range(unmapped_unique)),
                 !.c.data = << [coordinator.data[1] EXCEPT
                                  !.assets = new_assets,
                                  !.unmapped_symbols = unmapped_unique] >>,
                 !.h.publications = history.publications + 1,
                 !.h.overwritten =
                     history.overwritten
                     \/ asset_task.seen # history.publications])
    /\ asset_task' = IdleAssetTask
    /\ UNCHANGED << replay_vars, helper_vars, calls >>

\* ---- remap_symbol
RemapCalls ==
    { [symbol |-> "AAPL", ticker |-> "AAPL.US", category |-> NoneValue],
      [symbol |-> "AAPL", ticker |-> NoneValue, category |-> "bond"],
      [symbol |-> "AAPL", ticker |-> "AAPL.US", category |-> "commodity"],
      [symbol |-> "MSFT", ticker |-> "MSFT.US", category |-> NoneValue] }

\* Lines 115-123: the ticker is put into the entry's own dict when the entry
\* has one (which the host then sees as unchanged), into a new dict otherwise.
RemapTicker(W, call) ==
    LET mapping == MapPut(OrEmptyMap(W.e.symbol_mapping), call.symbol,
                          call.ticker)
    IN  IF W.e.symbol_mapping # << >>
        THEN [W EXCEPT !.e.symbol_mapping = << mapping >>]
        ELSE async_update_entry(W,
                 [W.e EXCEPT !.symbol_mapping = << mapping >>])

\* Lines 128-141.
FallbackPositions(assets) ==
    [i \in DOMAIN assets |->
       [symbol |-> assets[i].symbol,
        name |-> OrElse(assets[i].name, assets[i].symbol),
        type |-> assets[i].type,
        manual_type |-> FALSE,
        quantity |-> assets[i].quantity,
        avg_buy_price |-> assets[i].avg_buy_price,
        currency |-> assets[i].currency,
        broker |-> assets[i].broker]]

\* Lines 159-175 on one position; no broker is given in the calls of the
\* model.
Recategorised(pos, call) ==
    IF StripUpper(call.symbol) = StripUpper(OrElse(pos.symbol, ""))
    THEN [pos EXCEPT !.type = call.category, !.manual_type = TRUE]
    ELSE pos

Matches(poslist, call) ==
    \E i \in DOMAIN poslist :
        StripUpper(call.symbol) = StripUpper(OrElse(poslist[i].symbol, ""))

\* Lines 125-187.
RemapCategory(W, call, ticker_stored) ==
    LET fallback == IF W.e.positions = << >>
                    THEN FallbackPositions(W.c.data[1].assets)
                    ELSE << >>
        W1 == IF fallback # << >>
              THEN async_update_entry(W,
                       [W.e EXCEPT !.positions = fallback,
                                   !.transactions = << >>])
              ELSE W
        current == IF fallback # << >> THEN fallback ELSE W.e.positions
        new_positions == [i \in DOMAIN current |->
                            Recategorised(current[i], call)]
        W2 == async_update_entry(W1, [W1.e EXCEPT !.positions = new_positions])
    IN  IF ticker_stored \/ Matches(current, call)
        THEN [W2 EXCEPT !.c.positions = new_positions, !.rq = TRUE]
        ELSE W1

\* Lines 105-189: `updated` is set at line 122 whenever a symbol and a ticker
\* are given, and at line 173 for every matching position.
handle_remap_symbol(W, call) ==
    LET W1 == IF call.ticker # NoneValue
              THEN [RemapTicker(W, call) EXCEPT !.rq = TRUE]
              ELSE W
    IN  IF call.category # NoneValue
        THEN RemapCategory(W1, call, call.ticker # NoneValue)
        ELSE W1

\* _handle_remap_symbol, which runs to its end without suspending before the
\* refresh request.
RemapSymbol ==
    /\ coordinator.data # << >>
    /\ calls.remaps < MaxRemaps
    /\ calls' = [calls EXCEPT !.remaps = @ + 1]
    /\ \E call \in RemapCalls :
         Becomes(NoteOtherWriter(handle_remap_symbol(World, call), entry_data))
    /\ UNCHANGED << replay_vars, helper_vars, asset_task >>

\* ---- manual transaction (options flow), followed by the entry's reload
ManualTransaction ==
    /\ update_task.pc = "idle"
    /\ asset_task.pc = "idle"
    /\ calls.manual < MaxManualTransactions
    /\ calls' = [calls EXCEPT !.manual = @ + 1]
    /\ LET symbol == StripUpper(ManualTransactionInput.symbol)
           held == { i \in DOMAIN entry_data.positions :
                       StripUpper(OrElse(entry_data.positions[i].symbol, ""))
                       = symbol }
           default_broker ==
               IF held = {} THEN entry_data.broker_name
               ELSE entry_data.positions[
                        CHOOSE i \in held : \A j \in held : i <= j].broker
           tx == [symbol |-> symbol, name |-> symbol,
                  quantity |-> ManualTransactionInput.quantity,
                  price |-> ManualTransactionInput.price,
                  currency |-> ManualTransactionInput.currency,
                  broker |-> OrElse(ManualTransactionInput.broker,
                                    OrElse(default_broker, "manual")),
                  date |-> ManualTransactionInput.date]
           data == [entry_data EXCEPT !.transactions = Append(@, tx)]
       IN  /\ entry_data' = data
           /\ coordinator' = NewCoordinator(data)
    /\ refresh_requested' = TRUE
    /\ UNCHANGED << replay_vars, helper_vars, import_dir, update_task, asset_task,
                    DEFAULT_SYMBOL_MAPPING, issues, history >>

\* ---- the refresh service and the periodic timer
RequestRefresh ==
    /\ coordinator.data # << >>
    /\ ~refresh_requested
    /\ calls.cycles < MaxCycles
    /\ refresh_requested' = TRUE
    /\ UNCHANGED << replay_vars, helper_vars, entry_data, import_dir, coordinator,
                    update_task, asset_task, DEFAULT_SYMBOL_MAPPING, issues,
                    calls, history >>

\* ---- the user drops a file into the import directory. A cycle lists the
\* directory between its start and its first parse only, and nothing else
\* reads it: a file dropped while a cycle runs is seen as one dropped before
\* or after that cycle, and a file dropped at any moment before a cycle as one
\* dropped right before that cycle starts.
DropFile ==
    /\ update_task.pc = "idle"
    /\ refresh_requested
    /\ calls.cycles < MaxCycles
    /\ \E name \in ImportFiles :
         /\ name \notin import_dir.csv \cup import_dir.processed
         /\ import_dir' = [import_dir EXCEPT !.csv = @ \cup {name}]
    /\ UNCHANGED << replay_vars, helper_vars, entry_data, coordinator, update_task,
                    asset_task, refresh_requested, DEFAULT_SYMBOL_MAPPING,
                    issues, calls, history >>

\* ------------------------------------------------------------------- Spec
Init ==
    /\ positions = << >>
    /\ transactions = << >>
    /\ pos_index = << >>
    /\ symbol_brokers = {}
    /\ pending = << >>
    /\ applied = << >>
    /\ returned = << >>
    /\ realized = RZero
    /\ pc = "off"
    /\ entry_data \in NewEntries
    /\ import_dir = [csv |-> {}, processed |-> {}]
    /\ coordinator = NewCoordinator(entry_data)
    /\ update_task = IdleTask
    /\ asset_task = IdleAssetTask
    /\ refresh_requested = TRUE
    /\ DEFAULT_SYMBOL_MAPPING = EmptyMap
    /\ issues = {}
    /\ calls = [cycles |-> 0, remaps |-> 0, manual |-> 0,
                asset_refreshes |-> 0]
    /\ history = [publications |-> 0, last_cycle |-> << >>,
                  failure |-> << >>, overwritten |-> FALSE]
    /\ HelpersOff

Next ==
    \/ CycleStart
    \/ CycleParsedPositions
    \/ CycleParsedTransactions
    \/ CycleParsedProcessed
    \/ CycleSearched
    \/ CycleQuoted
    \/ CycleFail
    \/ RefreshAssetCall
    \/ RefreshAssetQuoted
    \/ RemapSymbol
    \/ ManualTransaction
    \/ RequestRefresh
    \/ DropFile

Spec == Init /\ [][Next]_vars

\* ================================================================ SpecHelpers
\* ------------------------------------------------------------------ bounds
\* Longest persisted log given to the transaction helpers.
MaxStored == 2
\* Most rows of an imported transaction file.
MaxImported == 2

\* ----------------------------------------------- compute_total_cash_invested
\* ------------------------------------------------- inputs of the helpers
\* (symbol, broker, name) of the records: two spellings of one key and a
\* second symbol.
HelperTxHeads ==
    { << " aapl", "ibkr", "Apple" >>, << "AAPL", "IBKR ", "AAPL" >>,
      << "MSFT", "ibkr", "MSFT" >> }

\* (quantity, price): a buy, a buy without a price, a buy whose price column
\* reads -200, a sell. _to_float and the options flow take any sign.
HelperTxAmounts == { << 10, 200 >>, << 10, 0 >>, << 10, -200 >>, << -5, 180 >> }

HelperTransactions ==
    { [symbol |-> h[1], name |-> h[3], quantity |-> a[1], price |-> a[2],
       currency |-> "USD", broker |-> h[2], date |-> "2024-01-01"] :
      h \in HelperTxHeads, a \in HelperTxAmounts }

\* asset_types as the cycle builds it (symbol_asset_types), or None.
AssetTypeInputs ==
    { << >>,
      << ("AAPL" :> "bond") @@ ("MSFT" :> "equity") >>,
      << (" aapl" :> "Bond ") >> }

\* ------------------------------------------------------------------ totals
\* The running sums of the loops over the assets.
RECURSIVE SumSeq(_)
SumSeq(terms) ==
    IF terms = << >> THEN RZero
    ELSE RAdd(Head(terms), SumSeq(Tail(terms)))

SumOver(assets, Term(_)) == SumSeq([i \in DOMAIN assets |-> Term(assets[i])])

\* total_value += market_value, when the asset has one.
ValueTerm(asset) ==
    IF asset.market_value = << >> THEN RZero ELSE asset.market_value[1]

\* Lines 524-544: what a priced position adds to total_active_invested.
ActiveInvestedTerm(asset) ==
    IF asset.current_price = << >> THEN RZero
    ELSE LET price == asset.current_price[1]
             avg_buy == asset.avg_buy_price
             effective_avg_buy ==
                 IF asset.type = "bond" /\ avg_buy.n <= 0 THEN price
                 ELSE avg_buy
             basis == IF RIsZero(effective_avg_buy) THEN price
                      ELSE effective_avg_buy
         IN  IF asset.type = "bond"
             THEN IF RIsZero(basis) THEN RZero
                  ELSE RMulInt(RDivInt(basis, 100), asset.quantity)
             ELSE RMulInt(effective_avg_buy, asset.quantity)

\* Lines 524-544: profit_loss_abs of an asset, None without a price.
ProfitLossAbs(asset) ==
    IF asset.current_price = << >> THEN << >>
    ELSE LET price == asset.current_price[1]
             avg_buy == asset.avg_buy_price
             effective_avg_buy ==
                 IF asset.type = "bond" /\ avg_buy.n <= 0 THEN price
                 ELSE avg_buy
         IN  IF RIsZero(effective_avg_buy) THEN << RZero >>
             ELSE IF asset.type = "bond"
             THEN << RMulInt(RDivInt(RSub(price, effective_avg_buy), 100),
                             asset.quantity) >>
             ELSE << RMulInt(RSub(price, effective_avg_buy), asset.quantity) >>

\* symbol_asset_types of line 522: the last asset of a symbol decides.
SymbolAssetTypes(assets) ==
    [s \in { StripUpper(assets[i].symbol) : i \in DOMAIN assets } |->
       LET hits == { i \in DOMAIN assets : StripUpper(assets[i].symbol) = s }
       IN  assets[CHOOSE i \in hits : \A j \in hits : j <= i].type]

\* ((a / b) * 100) if b else 0
PercentOf(a, b) == IF RIsZero(b) THEN RZero ELSE RMulInt(RDiv(a, b), 100)

\* Lines 435, 593-596 and 641-649: the totals of a full refresh.
CycleTotals(assets, txs) ==
    LET total_value == SumOver(assets, ValueTerm)
        total_active_invested == SumOver(assets, ActiveInvestedTerm)
        realized_profit_loss ==
            IF txs # << >> THEN compute_realized_profit_loss(txs) ELSE RZero
        total_cash_invested ==
            IF txs # << >>
            THEN compute_total_cash_invested(txs, << SymbolAssetTypes(assets) >>)
            ELSE RZero
        total_profit_loss_unrealized == RSub(total_value, total_active_invested)
        total_profit_loss ==
            RAdd(total_profit_loss_unrealized, realized_profit_loss)
    IN  [total_value |-> total_value,
         total_active_invested |-> << total_active_invested >>,
         total_invested |-> total_cash_invested,
         total_profit_loss |-> total_profit_loss,
         total_profit_loss_pct |-> PercentOf(total_profit_loss,
                                             total_cash_invested),
         total_profit_loss_realized |-> << realized_profit_loss >>,
         total_profit_loss_unrealized |-> << total_profit_loss_unrealized >>]

\* total_invested += avg_buy * quantity (line 153).
HeldCostTerm(asset) == RMulInt(asset.avg_buy_price, asset.quantity)

\* Lines 144-158 and 198-203: the totals refresh_asset publishes, a dict of
\* four keys that replaces the one of the last full refresh.
RefreshAssetTotals(assets) ==
    LET total_value == SumOver(assets, ValueTerm)
        total_invested == SumOver(assets, HeldCostTerm)
        total_profit_loss == RSub(total_value, total_invested)
    IN  [total_value |-> total_value,
         total_active_invested |-> << >>,
         total_invested |-> total_invested,
         total_profit_loss |-> total_profit_loss,
         total_profit_loss_pct |-> PercentOf(total_profit_loss, total_invested),
         total_profit_loss_realized |-> << >>,
         total_profit_loss_unrealized |-> << >>]

\* The persisted snapshot of the valuations: one position, typed by the
\* provider or by the user.
HelperPositions ==
    { [ManualSetupPosition EXCEPT !.manual_type = m, !.type = t] :
        m \in BOOLEAN, t \in { "equity", "bond" } }

\* Lines 292-294 and 431-596 of a Stooq cycle whose quotes all equal `quote`:
\* the replayed positions are valued and the totals computed.
ValuationOf(poslist, txs, quote) ==
    LET replayed == IF txs # << >>
                    THEN apply_transactions_to_positions(poslist, txs)
                    ELSE poslist
        assets == BuildAssets(replayed, FALSE, << >>,
                      [symbol_map |-> EmptyMap,
                       market |-> [m \in Range(SymbolsOf(replayed)) |-> quote],
                       provider |-> "stooq",
                       unresolved_symbols |-> {}]).assets
    IN  [assets |-> assets, totals |-> CycleTotals(assets, txs)]

Valuation(pos, txs, quote) == ValuationOf(<< pos >>, txs, quote)

\* What async_step_manual_add appends to the entry's positions: the symbol
\* stripped and upper-cased, the broker as typed.
ManualAdditions ==
    { [ManualSetupPosition EXCEPT !.quantity = 10],
      [ManualSetupPosition EXCEPT !.quantity = 5],
      [ManualSetupPosition EXCEPT !.symbol = "MSFT", !.name = "Microsoft"] }

\* Manual additions before the refresh.
MaxManualAdds == 2

\* A symbol as the Degiro layout gives it (the ISIN) and the tickers Yahoo's
\* search may list for it, scoring 0.95, 0.92, 0.88 and 0.80.
FuzzySymbol == "IE00B4L5Y983"

FuzzyCandidates ==
    { "IE00B4L5Y98", "IE00B4L5Y983.F", "IE00B4L5Y983.DE", "IE00B4L5" }

\* Rows of one search answer.
MaxSearchRows == 2

\* What search_symbols can answer for it.
FuzzySearchAnswers ==
    SeqsUpTo({ [SearchHitApple EXCEPT !.symbol = c] : c \in FuzzyCandidates },
             MaxSearchRows)

\* The asset the valuation builds for the symbol after the resolution.
FuzzyAsset(task) ==
    BuildAssets(<< [EmptyPosition EXCEPT !.symbol = FuzzySymbol,
                                         !.broker = "degiro"] >>,
                FALSE, << >>,
                [symbol_map |-> task.symbol_map,
                 market |-> [m \in { task.symbol_map[s] : s \in DOMAIN task.symbol_map } |->
                               [price |-> << RatOfInt(110) >>,
                                currency |-> "EUR",
                                search |-> << SearchHitApple >>]],
                 provider |-> "yahoo_public",
                 unresolved_symbols |-> task.unresolved_symbols]).assets[1]

\* ------------------------------------------------------------------ actions
InitHelpers ==
    /\ positions = << >>
    /\ transactions = << >>
    /\ pos_index = << >>
    /\ symbol_brokers = {}
    /\ pending = << >>
    /\ applied = << >>
    /\ returned = << >>
    /\ realized = RZero
    /\ pc = "input"
    /\ OrchestratorOff
    /\ HelpersOff

\* entry.data["transactions"] grows by one record (a manual entry is appended
\* as it is given).
StoreTransaction ==
    /\ pc = "input"
    /\ imported_tx = << >>
    /\ Len(transactions) < MaxStored
    /\ \E tx \in HelperTransactions : transactions' = Append(transactions, tx)
    /\ UNCHANGED << positions, pos_index, symbol_brokers, pending, applied,
                    returned, realized, pc, orchestrator_vars, helper_vars >>

\* A transaction file with one more row waits in the import directory.
AddFileRow ==
    /\ pc = "input"
    /\ Len(imported_tx) < MaxImported
    /\ \E tx \in HelperTransactions : imported_tx' = Append(imported_tx, tx)
    /\ UNCHANGED << replay_vars, orchestrator_vars, asset_types,
                    helper_result >>

\* compute_total_cash_invested(transactions, asset_types)
CashInvestedCall ==
    /\ pc = "input"
    /\ imported_tx = << >>
    /\ \E types \in AssetTypeInputs :
         /\ asset_types' = types
         /\ helper_result' = compute_total_cash_invested(transactions, types)
    /\ pc' = "cash_invested"
    /\ UNCHANGED << positions, transactions, pos_index, symbol_brokers,
                    pending, applied, returned, realized, orchestrator_vars,
                    imported_tx >>

\* Mutant of ExtendAndDedupe: the rows of the file are appended and the list
\* is kept as it is.
ExtendOnly(local, incoming) == local \o incoming

\* transactions.extend(incoming_tx)
\* transactions = self._dedupe_transactions(transactions)
ExtendAndDedupe(local, incoming) == dedupe_transactions(local \o incoming)

\* Lines 212-213: the cycle's local list is the deduplicated persisted log.
DedupeCall ==
    /\ pc = "input"
    /\ helper_result' = dedupe_transactions(transactions)
    /\ pc' = "deduped"
    /\ UNCHANGED << positions, transactions, pos_index, symbol_brokers,
                    pending, applied, returned, realized, orchestrator_vars,
                    imported_tx, asset_types >>

\* Lines 267-274: the file's rows are appended to the local list, which is
\* deduplicated and persisted.
ImportCall ==
    /\ pc = "deduped"
    /\ imported_tx # << >>
    /\ helper_result' = ExtendAndDedupe(helper_result, imported_tx)
    /\ pc' = "imported"
    /\ UNCHANGED << positions, transactions, pos_index, symbol_brokers,
                    pending, applied, returned, realized, orchestrator_vars,
                    imported_tx, asset_types >>

\* The same file is dropped again and the next cycle imports it: lines
\* 212-213 on the persisted log, then lines 267-274.
ImportAgainCall ==
    /\ pc = "imported"
    /\ helper_result' = ExtendAndDedupe(dedupe_transactions(helper_result),
                                        imported_tx)
    /\ pc' = "imported_again"
    /\ UNCHANGED << positions, transactions, pos_index, symbol_brokers,
                    pending, applied, returned, realized, orchestrator_vars,
                    imported_tx, asset_types >>

\* Lines 352-368 for one symbol without a stored mapping, and the asset of
\* lines 441-591 built from the outcome.
ResolveCall ==
    /\ pc = "input"
    /\ transactions = << >>
    /\ imported_tx = << >>
    /\ \E results \in FuzzySearchAnswers :
         LET task == Searched([t |-> [IdleTask EXCEPT
                                        !.symbols = << FuzzySymbol >>,
                                        !.cursor = 1,
                                        !.pc = "await_search"]],
                              results).t
         IN  helper_result' = [results |-> results, task |-> task,
                               asset |-> FuzzyAsset(task)]
    /\ pc' = "resolved"
    /\ UNCHANGED << positions, transactions, pos_index, symbol_brokers,
                    pending, applied, returned, realized, orchestrator_vars,
                    imported_tx, asset_types >>

\* The keys of a dict filled in the order of `symbols`.
RECURSIVE KeysInOrder(_)
KeysInOrder(symbols) ==
    IF symbols = << >> THEN << >>
    ELSE LET earlier == KeysInOrder(SubSeq(symbols, 1, Len(symbols) - 1))
             symbol == symbols[Len(symbols)]
         IN  IF symbol \in Range(earlier) THEN earlier
             ELSE Append(earlier, symbol)

\* Lines 405-413: the mapped symbols of the commodity positions go to Stooq,
\* all others to Yahoo.
ProviderRouting(task) ==
    LET keys == KeysInOrder(task.symbols)
        IsCommodity(symbol) ==
            PositionLookup(task.positions, symbol).type = "commodity"
        to_stooq == SelectSeq(keys, IsCommodity)
        to_yahoo == SelectSeq(keys, LAMBDA symbol : ~IsCommodity(symbol))
    IN  [yahoo_symbols |-> [i \in DOMAIN to_yahoo |->
                              task.symbol_map[to_yahoo[i]]],
         stooq_symbols |-> [i \in DOMAIN to_stooq |->
                              task.symbol_map[to_stooq[i]]]]

\* Lines 415-426: quotes = {}, then update() with Yahoo's answer, then with
\* Stooq's.
MergedQuotes(yahoo_quotes, stooq_quotes) ==
    MapUpdate(MapUpdate(EmptyMap, yahoo_quotes), stooq_quotes)

\* The symbols search_symbols was called with by a Yahoo cycle: by the
\* resolution (line 352; each ends unresolved or as a mapping update) and by
\* the enrichment of the valuation loop (line 467), which runs for every
\* position up to the one the loop failed on.
SearchesIssued(poslist, task, built) ==
    LET held == SelectSeq(poslist, LAMBDA pos : ~Falsy(pos.symbol))
        reached == IF built.failed THEN Len(built.assets) + 1
                   ELSE Len(built.assets)
    IN  [resolution |-> task.unresolved_symbols
                          \cup DOMAIN task.mapping_updates,
         enrichment |->
             { MapGet(task.symbol_map, held[i].symbol, held[i].symbol) :
                 i \in 1..reached } \ { "" }]

\* Positions of a Yahoo portfolio: gold held as a commodity, the same
\* instrument held under its ticker, and a share.
RoutingPositions ==
    { [EmptyPosition EXCEPT !.symbol = "XAU", !.type = "commodity",
                            !.currency = "USD", !.quantity = 1,
                            !.broker = "manual"],
      [EmptyPosition EXCEPT !.symbol = "XAUUSD", !.type = "etf",
                            !.quantity = 1, !.broker = "manual"],
      [EmptyPosition EXCEPT !.symbol = "AAPL", !.type = "equity",
                            !.quantity = 1, !.broker = "manual"] }

\* Positions of one routed portfolio.
MaxRouted == 2

\* Lines 331-377 of a Yahoo cycle whose searches all answer nothing.
RECURSIVE ResolveUnanswered(_)
ResolveUnanswered(W) ==
    IF W.t.cursor > Len(W.t.symbols) THEN W
    ELSE LET W1 == ResolveNext(W)
         IN  IF W1.t.pc = "await_search"
             THEN ResolveUnanswered(Searched(W1, << >>))
             ELSE ResolveUnanswered(W1)

\* The task of a Yahoo cycle over `poslist` when its quotes are fetched.
RoutedTask(poslist) ==
    ResolveUnanswered(
        [e |-> [market_data_provider |-> "yahoo_public",
                symbol_mapping |-> << >>],
         t |-> [IdleTask EXCEPT !.positions = poslist,
                                !.symbols = SymbolsOf(poslist),
                                !.cursor = 1,
                                !.pc = "resolve_symbols"]]).t

\* Lines 331-591 of a Yahoo cycle: the symbols are resolved, routed to the
\* two providers, the answers merged and the positions valued.
RoutingCall ==
    /\ pc = "input"
    /\ transactions = << >>
    /\ imported_tx = << >>
    /\ \E poslist \in SeqsUpTo(RoutingPositions, MaxRouted) \ { << >> } :
         LET task == RoutedTask(poslist)
             routing == ProviderRouting(task)
             Built(quotes) ==
                 BuildAssets(poslist, FALSE, << >>,
                     [symbol_map |-> task.symbol_map,
                      market |-> quotes,
                      provider |-> "yahoo_public",
                      unresolved_symbols |-> task.unresolved_symbols])
         IN  \E yahoo_quotes \in [Range(routing.yahoo_symbols) -> YahooAnswers],
                stooq_quotes \in [Range(routing.stooq_symbols) -> StooqAnswers] :
               helper_result' =
                   [positions |-> poslist,
                    yahoo_symbols |-> routing.yahoo_symbols,
                    stooq_symbols |-> routing.stooq_symbols,
                    yahoo_quotes |-> yahoo_quotes,
                    stooq_quotes |-> stooq_quotes,
                    quotes |-> MergedQuotes(yahoo_quotes, stooq_quotes),
                    task |-> task,
                    built |-> Built(MergedQuotes(yahoo_quotes,
                                                 stooq_quotes)),
                    searches |->
                        SearchesIssued(poslist, task,
                            Built(MergedQuotes(yahoo_quotes, stooq_quotes)))]
    /\ pc' = "routed"
    /\ UNCHANGED << positions, transactions, pos_index, symbol_brokers,
                    pending, applied, returned, realized, orchestrator_vars,
                    imported_tx, asset_types >>

\* ---- api/alphavantage.py
\* What one GLOBAL_QUOTE request can end in: a transport error (status 0), a
\* non-200 answer, a rate-limit Note or Error Message, or a payload with the
\* text of "05. price".
AlphaResponses ==
    { [status |-> 0, note |-> FALSE, price_str |-> NoneValue],
      [status |-> 503, note |-> FALSE, price_str |-> NoneValue],
      [status |-> 200, note |-> TRUE, price_str |-> NoneValue],
      [status |-> 200, note |-> FALSE, price_str |-> NoneValue],
      [status |-> 200, note |-> FALSE, price_str |-> "N/A"],
      [status |-> 200, note |-> FALSE, price_str |-> "110.00"],
      [status |-> 200, note |-> FALSE, price_str |-> "120.50"] }

\* Lines 47-66: the price of one request, None unless float(price_str)
\* succeeds on a 200 answer without Note or Error Message.
AlphaPrice(resp) ==
    CASE resp.status # 200 \/ resp.note -> << >>
      [] resp.price_str = "110.00" -> << RatOfInt(110) >>
      [] resp.price_str = "120.50" -> << Rat(241, 2) >>
      [] OTHER -> << >>

\* Mutant of AlphaStep: every fetch, failed or not, is written to the cache
\* and returned.
AlphaStepAlwaysWrites(acc, symbol, resp) ==
    LET price == AlphaPrice(resp)
    IN  [data |-> MapPut(acc.data, symbol,
                         [price |-> price, currency |-> NoneValue]),
         cache |-> MapPut(acc.cache, symbol,
                          [price |-> price, currency |-> NoneValue])]

\* Lines 46-85: one iteration of the loop over the symbols.
AlphaStep(acc, symbol, resp) ==
    LET price == AlphaPrice(resp)
    IN  IF price = << >> /\ symbol \in DOMAIN acc.cache
        THEN [acc EXCEPT
                !.data = MapPut(acc.data, symbol,
                                [price |-> acc.cache[symbol].price,
                                 currency |-> acc.cache[symbol].currency])]
        ELSE [data |-> MapPut(acc.data, symbol,
                              [price |-> price, currency |-> NoneValue]),
              cache |-> MapPut(acc.cache, symbol,
                               [price |-> price, currency |-> NoneValue])]

RECURSIVE AlphaLoop(_, _, _)
AlphaLoop(acc, symbols, responses) ==
    IF symbols = << >> THEN acc
    ELSE AlphaLoop(AlphaStep(acc, Head(symbols), Head(responses)),
                   Tail(symbols), Tail(responses))

\* Mutant of get_alpha_quotes: the requests are made without a key too.
get_alpha_quotes_unkeyed(symbols, api_key, cache, responses) ==
    AlphaLoop([data |-> EmptyMap, cache |-> cache], symbols, responses)

\* get_quotes(symbols, api_key, cache_path) with a cache file holding `cache`
\* and the requests answered by `responses`: the quotes returned and the
\* file's content afterwards. Without a key (lines 41-44) every price is None
\* and the file is not written.
get_alpha_quotes(symbols, api_key, cache, responses) ==
    IF Falsy(api_key)
    THEN [data |-> [s \in Range(symbols) |->
                      [price |-> << >>, currency |-> NoneValue]],
          cache |-> cache]
    ELSE AlphaLoop([data |-> EmptyMap, cache |-> cache], symbols, responses)

\* Lines 384-403 of a cycle with provider alpha_vantage: without a key the
\* quotes are Stooq's and get_alpha_quotes is not called; with a key the
\* symbols it left without price are asked from Stooq under their mapped
\* name.
AlphaCycleQuotes(mapped_symbols, alpha_key, cache, responses, stooq_quotes) ==
    IF Falsy(alpha_key)
    THEN [quotes |-> [s \in Range(mapped_symbols) |-> stooq_quotes[s]],
          cache |-> cache]
    ELSE LET out == get_alpha_quotes(mapped_symbols, alpha_key, cache,
                                     responses)
             Fallback(sym) ==
                 stooq_quotes[map_symbol("ibkr", sym, EmptyMap)]
         IN  [quotes |->
                  [s \in DOMAIN out.data |->
                      IF out.data[s].price = << >>
                         /\ Fallback(s).price # << >>
                      THEN [price |-> Fallback(s).price,
                            currency |-> Fallback(s).currency]
                      ELSE out.data[s]],
              cache |-> out.cache]

\* The cache file before a cycle: absent, or holding a price of an earlier
\* cycle.
AlphaCaches ==
    { EmptyMap,
      [s \in { "AAPL" } |-> [price |-> << RatOfInt(110) >>,
                             currency |-> NoneValue]] }

\* The symbols of the portfolio, the longest request and the number of calls.
AlphaSymbols == { "AAPL", "MSFT" }

MaxAlphaSymbols == 2

MaxAlphaCalls == 3

\* The price of the most recent successful fetch of each symbol after a call
\* (observation only).
LastSuccess(before, symbols, responses) ==
    [s \in AlphaSymbols |->
        LET good == { i \in DOMAIN symbols :
                        symbols[i] = s /\ AlphaPrice(responses[i]) # << >> }
        IN  IF good = {} THEN before[s]
            ELSE AlphaPrice(responses[CHOOSE i \in good :
                                        \A j \in good : j <= i])]

\* The quote fetch of one cycle with provider alpha_vantage, next to what
\* get_quotes answers for the same request.
AlphaCycleCall ==
    /\ pc = "input"
    /\ transactions = << >>
    /\ imported_tx = << >>
    /\ \E symbols \in SeqsUpTo(AlphaSymbols, MaxAlphaSymbols) \ { << >> },
          alpha_key \in { "", "demo-key" }, cache \in AlphaCaches :
         \E responses \in [DOMAIN symbols -> AlphaResponses],
            stooq_quotes \in [AlphaSymbols -> StooqAnswers] :
           helper_result' =
               [symbols |-> symbols,
                alpha_key |-> alpha_key,
                cache_before |-> cache,
                provider |-> get_alpha_quotes(symbols, alpha_key, cache,
                                              responses),
                cycle |-> AlphaCycleQuotes(symbols, alpha_key, cache,
                                           responses, stooq_quotes)]
    /\ pc' = "alpha_cycle"
    /\ UNCHANGED << positions, transactions, pos_index, symbol_brokers,
                    pending, applied, returned, realized, orchestrator_vars,
                    imported_tx, asset_types >>

\* One get_quotes call with an API key on the cache file the earlier calls
\* left.
AlphaQuotesCall ==
    /\ \/ /\ pc = "input"
          /\ transactions = << >>
          /\ imported_tx = << >>
       \/ /\ pc = "alpha"
          /\ helper_result.calls < MaxAlphaCalls
    /\ \E symbols \in SeqsUpTo(AlphaSymbols, MaxAlphaSymbols) \ { << >> } :
         \E responses \in [DOMAIN symbols -> AlphaResponses] :
           LET before == IF pc = "input"
                         THEN [cache |-> EmptyMap, calls |-> 0,
                               last_success |->
                                   [s \in AlphaSymbols |-> << >>]]
                         ELSE helper_result
               out == get_alpha_quotes(symbols, "demo-key", before.cache,
                                       responses)
           IN  helper_result' =
                   [symbols |-> symbols,
                    fetched |-> [i \in DOMAIN symbols |->
                                   AlphaPrice(responses[i])],
                    data |-> out.data,
                    cache |-> out.cache,
                    cache_before |-> before.cache,
                    calls |-> before.calls + 1,
                    last_success |-> LastSuccess(before.last_success,
                                                 symbols, responses)]
    /\ pc' = "alpha"
    /\ UNCHANGED << positions, transactions, pos_index, symbol_brokers,
                    pending, applied, returned, realized, orchestrator_vars,
                    imported_tx, asset_types >>

\* remap_symbol calls made one after the other.
MaxRemapCalls == 2

\* A Stooq portfolio after its first refresh: the entry of the set-up, the
\* published snapshot, no refresh pending.
ServedWorld(entry, quote) ==
    [e |-> entry,
     c |-> [NewCoordinator(entry) EXCEPT
              !.data = << [assets |-> Valuation(ManualSetupPosition, << >>,
                                                quote).assets,
                           unmapped_symbols |-> << >>] >>],
     rq |-> FALSE,
     t |-> IdleTask]

\* One remap_symbol call, made once the refresh an earlier call requested
\* has started.
RemapCall ==
    /\ \/ /\ pc = "input"
          /\ transactions = << >>
          /\ imported_tx = << >>
       \/ /\ pc = "remapped"
          /\ helper_result.calls < MaxRemapCalls
    /\ \E call \in RemapCalls, quote \in StooqAnswers :
         LET before ==
                 IF pc = "input"
                 THEN [world |->
                           ServedWorld(
                               [positions |-> << ManualSetupPosition >>,
                                transactions |-> << >>,
                                symbol_mapping |-> << >>,
                                unmapped_symbols |-> << << >> >>,
                                market_data_provider |-> "stooq",
                                broker_name |-> "ibkr"], quote),
                       calls |-> 0]
                 ELSE helper_result
             served == [before.world EXCEPT !.rq = FALSE]
         IN  helper_result' =
                 [world |-> handle_remap_symbol(served, call),
                  before |-> served,
                  call |-> call,
                  calls |-> before.calls + 1]
    /\ pc' = "remapped"
    /\ UNCHANGED << positions, transactions, pos_index, symbol_brokers,
                    pending, applied, returned, realized, orchestrator_vars,
                    imported_tx, asset_types >>

\* Manual additions, then a full refresh of the Stooq portfolio with the
\* stored log.
ManualAddCall ==
    /\ pc = "input"
    /\ imported_tx = << >>
    /\ \E added \in SeqsUpTo(ManualAdditions, MaxManualAdds) \ { << >> },
          quote \in StooqAnswers :
         LET txs == dedupe_transactions(transactions)
         IN  helper_result' =
                 [added |-> added,
                  transactions |-> txs,
                  replayed |-> apply_transactions_to_positions(added, txs),
                  assets |-> ValuationOf(added, txs, quote).assets]
    /\ pc' = "listed"
    /\ UNCHANGED << positions, transactions, pos_index, symbol_brokers,
                    pending, applied, returned, realized, orchestrator_vars,
                    imported_tx, asset_types >>

\* ---- api/stooq.py
\* `"." in sym` on the symbols of the model.
HasDot(sym) == sym \in { "AAPL.US", "VWCE.DE" }

StooqSuffixes == << ".US", ".DE", ".UK", ".L", ".F", ".PL" >>

\* Mutant of stooq_symbols: the bare symbol is tried first.
stooq_symbols_bare_first(symbol) ==
    LET sym == StripUpper(symbol)
    IN  IF sym = "" THEN << >>
        ELSE IF HasDot(sym) THEN << sym >>
        ELSE << sym >> \o [i \in DOMAIN StooqSuffixes |->
                              sym \o StooqSuffixes[i]]

\* _stooq_symbols(symbol): the candidates in the order they are tried.
stooq_symbols(symbol) ==
    LET sym == StripUpper(symbol)
    IN  IF sym = "" THEN << >>
        ELSE IF HasDot(sym) THEN << sym >>
        ELSE [i \in DOMAIN StooqSuffixes |-> sym \o StooqSuffixes[i]]
             \o << sym >>

\* What one request for a candidate can end in: a transport error (status
\* 0), a non-200 answer, or a CSV whose Close column holds the given text.
StooqResponses ==
    { [status |-> 0, close |-> NoneValue],
      [status |-> 404, close |-> NoneValue],
      [status |-> 200, close |-> "N/A"],
      [status |-> 200, close |-> "110.50"] }

\* Lines 68-79: the close of one answer, None unless the status is 200 and
\* float(close_val) is taken.
StooqClose(resp) ==
    CASE resp.status # 200 -> << >>
      [] resp.close \in { NoneValue, "", "N/A" } -> << >>
      [] resp.close = "110.50" -> << Rat(221, 2) >>
      [] OTHER -> << >>

\* Lines 63-84: the candidates are requested in turn until one has a close.
RECURSIVE StooqProbe(_, _, _)
StooqProbe(candidates, answers, queried) ==
    IF candidates = << >>
    THEN [price |-> << >>, currency |-> NoneValue,
          source_symbol |-> NoneValue, queried |-> queried]
    ELSE LET candidate == Head(candidates)
             price == StooqClose(answers[candidate])
         IN  IF price # << >>
             THEN [price |-> price, currency |-> NoneValue,
                   source_symbol |-> candidate,
                   queried |-> Append(queried, candidate)]
             ELSE StooqProbe(Tail(candidates), answers,
                             Append(queried, candidate))

\* get_quotes(symbols) of api/stooq.py, with the requests it made for each
\* symbol.
get_stooq_quotes(symbols, answers) ==
    [symbol \in Range(symbols) |->
        StooqProbe(stooq_symbols(symbol), answers, << >>)]

\* The symbols asked from Stooq: bare, untrimmed, suffixed and empty.
StooqSymbols == { "AAPL", " aapl", "AAPL.US", "" }

\* One get_quotes call for one symbol.
StooqQuotesCall ==
    /\ pc = "input"
    /\ transactions = << >>
    /\ imported_tx = << >>
    /\ \E symbol \in StooqSymbols :
         \E answers \in [Range(stooq_symbols(symbol)) -> StooqResponses] :
           helper_result' =
               [symbol |-> symbol,
                answers |-> answers,
                data |-> get_stooq_quotes(<< symbol >>, answers)]
    /\ pc' = "probed"
    /\ UNCHANGED << positions, transactions, pos_index, symbol_brokers,
                    pending, applied, returned, realized, orchestrator_vars,
                    imported_tx, asset_types >>

\* What Yahoo can supply as quote type, sector and industry of a symbol.
ClassifyTypes ==
    { NoneValue, "ETF", "EQUITY", "bond", "commodity", "cryptocurrency",
      "cash" }

ClassifySectors ==
    { "unknown", "fixed income", "commodity", "crypto", "cash", "equity" }

ClassifyIndustries ==
    { "unknown", "bond etf", "bond", "commodity stock", "crypto cash",
      "stock" }

\* map_yahoo_category on one symbol's texts.
ClassifyCall ==
    /\ pc = "input"
    /\ transactions = << >>
    /\ imported_tx = << >>
    /\ \E yahoo_type \in ClassifyTypes, sector \in ClassifySectors,
          industry \in ClassifyIndustries :
         helper_result' =
             [yahoo_type |-> yahoo_type, sector |-> sector,
              industry |-> industry,
              type |-> map_yahoo_category(yahoo_type, sector, industry)]
    /\ pc' = "classified"
    /\ UNCHANGED << positions, transactions, pos_index, symbol_brokers,
                    pending, applied, returned, realized, orchestrator_vars,
                    imported_tx, asset_types >>

\* ---- parse_transactions_csv, Degiro layout
\* value.strip() on the cells of the model.
Strip(value) ==
    CASE value = " USD" -> "USD"
      [] value = " " -> ""
      [] OTHER -> value

\* _to_float on the cells of the model: the currency codes and the blanks are
\* removed, the decimal comma becomes a point, any other text reads as 0.0.
to_float(value) ==
    CASE value = "10" -> 10
      [] value = "-4" -> -4
      [] value = "150,00" -> 150
      [] value = "EUR 180" -> 180
      [] OTHER -> 0

\* idx = {name: i for i, name in enumerate(header)}: the last column of that
\* name, counted from 1; 0 when the header has no such column.
ColumnOf(header, column) ==
    LET hits == { i \in DOMAIN header : header[i] = column }
    IN  IF hits = {} THEN 0 ELSE CHOOSE i \in hits : \A j \in hits : j <= i

\* row_data + [""] * (header_len - len(row_data))
PadRow(row, header_len) ==
    IF Len(row) < header_len
    THEN row \o [i \in 1..(header_len - Len(row)) |-> ""]
    ELSE row

\* row_data[idx.get(column, -1)] if idx.get(column, -1) >= 0 else default
CellOr(header, row_data, column, default) ==
    IF ColumnOf(header, column) > 0 THEN row_data[ColumnOf(header, column)]
    ELSE default

\* The currency of one row: the cell behind "Lokale waarde", else "EUR".
DegiroCurrency(header, row_data) ==
    LET cur_idx == ColumnOf(header, "Lokale waarde") + 1
        currency == IF ColumnOf(header, "Lokale waarde") > 0
                       /\ cur_idx <= Len(row_data)
                    THEN Strip(row_data[cur_idx]) ELSE ""
    IN  OrElse(currency, "EUR")

\* _parse_degiro(rows[1:]); the first column stands in for a header without
\* "Datum" or "Tijd".
RECURSIVE parse_degiro(_, _, _)
parse_degiro(header, rows_subset, broker) ==
    IF rows_subset = << >> THEN << >>
    ELSE LET row_data == PadRow(Head(rows_subset), Len(header))
             symbol == Strip(CellOr(header, row_data, "ISIN", ""))
             name == Strip(CellOr(header, row_data, "Product", ""))
             rest == parse_degiro(header, Tail(rows_subset), broker)
         IN  IF Head(rows_subset) = << >> THEN rest
             ELSE IF symbol = "" /\ name = "" THEN rest
             ELSE << [symbol |-> OrElse(symbol, name),
                      name |-> OrElse(name, symbol),
                      quantity |-> to_float(CellOr(header, row_data, "Aantal", "0")),
                      price |-> to_float(CellOr(header, row_data, "Koers", "0")),
                      currency |-> DegiroCurrency(header, row_data),
                      broker |-> broker,
                      date |-> CellOr(header, row_data, "Datum", row_data[1])
                               \o " "
                               \o CellOr(header, row_data, "Tijd", row_data[1])]
                  >> \o rest

\* Headers of a Degiro export: the full one (the currency columns have no
\* name), one that ends with "Lokale waarde", one without that column.
DegiroHeaders ==
    { << "Datum", "Tijd", "Product", "ISIN", "Aantal", "Koers", "",
         "Lokale waarde", "" >>,
      << "Datum", "Tijd", "Product", "ISIN", "Aantal", "Koers", "",
         "Lokale waarde" >>,
      << "Datum", "Tijd", "Product", "ISIN", "Aantal", "Koers", "" >> }

\* Rows of the export: with and without an ISIN, with each spelling of the
\* currency cell, cut off behind the price, and the empty line.
DegiroRows ==
    { << "01-01-2024", "09:30", "Apple", isin, "10", "150,00", "USD",
         "1500,00", cur >> :
      isin \in { "US0378331005", "" }, cur \in { "USD", " USD", "", " " } }
    \cup
    { << "02-01-2024", "09:30", "Apple", "US0378331005", "-4", "EUR 180",
         "EUR" >>,
      << >> }

\* Longest Degiro export.
MaxDegiroRows == 2

BaseCurrencies == { "EUR", "USD" }

\* Lines 264-268 for a Degiro export dropped into the import directory of a
\* portfolio with the given base currency.
DegiroImportCall ==
    /\ pc = "input"
    /\ transactions = << >>
    /\ imported_tx = << >>
    /\ \E header \in DegiroHeaders, base_currency \in BaseCurrencies,
          rows \in SeqsUpTo(DegiroRows, MaxDegiroRows) :
         /\ rows # << >>
         /\ helper_result' =
              [base_currency |-> base_currency,
               header |-> header,
               rows |-> rows,
               incoming_tx |-> parse_degiro(header, rows, "degiro")]
    /\ pc' = "degiro"
    /\ UNCHANGED << positions, transactions, pos_index, symbol_brokers,
                    pending, applied, returned, realized, orchestrator_vars,
                    imported_tx, asset_types >>

\* A buy of 10 AAPL at 150 on day 1 and a sell of 4 at 180 on day 2, in the
\* spellings a log can hold them: either order of the rows, both date formats,
\* the symbol and the broker as typed.
ExampleLogs ==
    { << b, s >> : b \in { [symbol |-> sym, name |-> "Apple", quantity |-> 10,
                            price |-> 150, currency |-> "USD",
                            broker |-> br, date |-> d] :
                           sym \in { "AAPL", " aapl" }, br \in { "ibkr", "IBKR " },
                           d \in { "2024-01-01", "01-01-2024" } },
                  s \in { [symbol |-> sym, name |-> "Apple", quantity |-> -4,
                            price |-> 180, currency |-> "USD",
                            broker |-> br, date |-> d] :
                           sym \in { "AAPL", " aapl" }, br \in { "ibkr", "IBKR " },
                           d \in { "2024-01-02", "02-01-2024 09:30" } } }
    \cup
    { << [symbol |-> "AAPL", name |-> "Apple", quantity |-> -4, price |-> 180,
          currency |-> "USD", broker |-> "ibkr", date |-> d2],
         [symbol |-> "AAPL", name |-> "Apple", quantity |-> 10, price |-> 150,
          currency |-> "USD", broker |-> "ibkr", date |-> d1] >> :
      d1 \in { "2024-01-01", "01-01-2024" },
      d2 \in { "2024-01-02", "02-01-2024 09:30" } }

\* The three helpers are run on one log and an empty snapshot.
ExampleCall ==
    /\ pc = "input"
    /\ transactions = << >>
    /\ imported_tx = << >>
    /\ \E log \in ExampleLogs :
         helper_result' =
           [log |-> log,
            positions |-> apply_transactions_to_positions(<< >>, log),
            realized_profit_loss |-> compute_realized_profit_loss(log),
            total_cash_invested |-> compute_total_cash_invested(log, << >>)]
    /\ pc' = "example"
    /\ UNCHANGED << positions, transactions, pos_index, symbol_brokers,
                    pending, applied, returned, realized, orchestrator_vars,
                    imported_tx, asset_types >>

\* A full refresh publishes its snapshot: assets and totals.
ValuationCall ==
    /\ pc = "input"
    /\ imported_tx = << >>
    /\ \E pos \in HelperPositions, quote \in StooqAnswers :
         helper_result' =
             Valuation(pos, dedupe_transactions(transactions), quote)
    /\ pc' = "valued"
    /\ UNCHANGED << positions, transactions, pos_index, symbol_brokers,
                    pending, applied, returned, realized, orchestrator_vars,
                    imported_tx, asset_types >>

\* refresh_asset(symbol) on the published snapshot (lines 100-158, 194-205).
RevaluationCall ==
    /\ pc = "valued"
    /\ \E symbol \in AssetRefreshSymbols, quote \in StooqAnswers :
         LET task == [assets |-> helper_result.assets, symbol |-> symbol,
                      broker |-> NoneValue]
             hits == { i \in DOMAIN task.assets :
                         IsTarget(task.assets[i], symbol, NoneValue) }
             target_asset ==
                 task.assets[CHOOSE i \in hits : \A j \in hits : i <= j]
             new_assets == RefreshedAssets(task, quote.price, quote.currency,
                                           target_asset.currency)
         IN  /\ hits # {}
             /\ helper_result' = [assets |-> new_assets,
                                   totals |-> RefreshAssetTotals(new_assets)]
    /\ pc' = "asset_refreshed"
    /\ UNCHANGED << positions, transactions, pos_index, symbol_brokers,
                    pending, applied, returned, realized, orchestrator_vars,
                    imported_tx, asset_types >>

NextHelpers ==
    \/ StoreTransaction
    \/ ResolveCall
    \/ RoutingCall
    \/ AlphaQuotesCall
    \/ AlphaCycleCall
    \/ RemapCall
    \/ ClassifyCall
    \/ ExampleCall
    \/ DegiroImportCall
    \/ StooqQuotesCall
    \/ ManualAddCall
    \/ ValuationCall
    \/ RevaluationCall
    \/ AddFileRow
    \/ CashInvestedCall
    \/ DedupeCall
    \/ ImportCall
    \/ ImportAgainCall

SpecHelpers == InitHelpers /\ [][NextHelpers]_vars

\* ================================================================ claims
\* The loop is about to apply a transaction with a non-blank symbol.
Applying == pc = "loop" /\ pending # << >> /\ SymbolOf(Head(pending)) # ""

\* The loop has just applied a transaction with a non-blank symbol.
Applied == pc = "loop" /\ applied # << >> /\ SymbolOf(applied[1].tx) # ""

\* The transaction the loop applies next.
NextTx == Head(pending)
NextCurrent == TxCurrent(pos_index, symbol_brokers, NextTx)
NextKey == << TxBroker(pos_index, symbol_brokers, NextTx), SymbolOf(NextTx) >>

\* avg * qty = total as a comparison of rationals without division.
AvgTimesQtyIs(avg, qty, total) == avg.n * qty * total.d = total.n * avg.d

\* C1: after apply_transactions_to_positions(P, T), for any snapshot P and
\* any log T, every returned position has quantity >= 0, and a sell that
\* would take a quantity below zero leaves it at exactly 0.
C1_QuantityNeverNegative ==
    /\ pc = "returned" => \A i \in DOMAIN returned : returned[i].quantity >= 0
    /\ (Applied /\ applied[1].tx.quantity < 0
        /\ applied[1].current.quantity + applied[1].tx.quantity < 0)
       => DictGet(pos_index, applied[1].key).quantity = 0

\* C2 as stated: a buy applied to a position holding (qty_old, avg_old)
\* yields quantity qty_old + qty_tx and avg_buy_price
\* (avg_old*qty_old + price*qty_tx) / (qty_old + qty_tx), whatever qty_old.
C2_BuyAnyHolding ==
    [][ (Applying /\ NextTx.quantity > 0) =>
        LET new == DictGet(pos_index', NextKey)
            qty == NextCurrent.quantity + NextTx.quantity
        IN  /\ new.quantity = qty
            /\ qty # 0
            /\ AvgTimesQtyIs(new.avg_buy_price, qty,
                 RAdd(RMulInt(NextCurrent.avg_buy_price, NextCurrent.quantity),
                      RatOfInt(NextTx.price * NextTx.quantity))) ]_vars

\* C2 (amended): a buy applied to a position holding (qty_old, avg_old) with
\* qty_old + qty_tx > 0 yields quantity qty_old + qty_tx and avg_buy_price
\* (avg_old*qty_old + price*qty_tx) / (qty_old + qty_tx).
C2_BuyWeightedAverage ==
    [][ (Applying /\ NextTx.quantity > 0
         /\ NextCurrent.quantity + NextTx.quantity > 0) =>
        LET new == DictGet(pos_index', NextKey)
            qty == NextCurrent.quantity + NextTx.quantity
        IN  /\ new.quantity = qty
            /\ AvgTimesQtyIs(new.avg_buy_price, qty,
                 RAdd(RMulInt(NextCurrent.avg_buy_price, NextCurrent.quantity),
                      RatOfInt(NextTx.price * NextTx.quantity))) ]_vars

\* C2 witness: (10, 100) plus a buy of 10 at 200 has given (20, 150).
C2_Witness ==
    /\ Applied
    /\ applied[1].tx.quantity = 10 /\ applied[1].tx.price = 200
    /\ applied[1].current.quantity = 10
    /\ applied[1].current.avg_buy_price = RatOfInt(100)
    /\ DictGet(pos_index, applied[1].key).quantity = 20
    /\ DictGet(pos_index, applied[1].key).avg_buy_price = RatOfInt(150)

\* C3: a sell that leaves a positive residual quantity leaves avg_buy_price
\* unchanged; a sell of at least the held quantity leaves quantity 0 and
\* avg_buy_price 0.
C3_SellKeepsOrResetsBasis ==
    [][ (Applying /\ NextTx.quantity < 0) =>
        LET new  == DictGet(pos_index', NextKey)
            held == NextCurrent.quantity
            sold == 0 - NextTx.quantity
        IN  /\ held - sold > 0 =>
                /\ new.quantity = held - sold
                /\ new.avg_buy_price = NextCurrent.avg_buy_price
            /\ sold >= held =>
                /\ new.quantity = 0
                /\ new.avg_buy_price = RZero ]_vars

\* C3 witness: 10 @ 100 minus 5 has given quantity 5, avg 100.
C3_Witness ==
    /\ Applied
    /\ applied[1].tx.quantity = -5
    /\ applied[1].current.quantity = 10
    /\ applied[1].current.avg_buy_price = RatOfInt(100)
    /\ DictGet(pos_index, applied[1].key).quantity = 5
    /\ DictGet(pos_index, applied[1].key).avg_buy_price = RatOfInt(100)

\* C4: replay is idempotent on its own output:
\* replay(replay(P, T), []) = replay(P, T), same positions, values and order.
C4_ReplayIdempotent ==
    pc \in { "returned", "realized" } =>
        apply_transactions_to_positions(returned, << >>) = returned

\* C4 witness: a returned list of two positions, built from a snapshot with
\* an un-normalised key and a log of two transactions.
C4_Witness ==
    /\ pc = "returned"
    /\ Len(transactions) = 2
    /\ Len(returned) >= 2
    /\ \E i \in DOMAIN positions : positions[i].broker = "IBKR "

\* Brokers that hold `symbol` in a list of positions.
Holders(poslist, symbol) ==
    { BrokerOf(poslist[i]) :
        i \in { j \in DOMAIN poslist : SymbolOf(poslist[j]) = symbol } }

\* The transaction just applied changed the position of `broker` in place.
UpdatedUnder(broker) ==
    LET tx  == applied[1].tx
        old == applied[1].current
        new == DictGet(pos_index, << broker, SymbolOf(tx) >>)
    IN  /\ applied[1].key = << broker, SymbolOf(tx) >>
        /\ old.broker = broker /\ old.symbol = SymbolOf(tx)
        /\ new.broker = broker
        /\ new.quantity = (IF old.quantity + tx.quantity > 0
                           THEN old.quantity + tx.quantity ELSE 0)

\* The transaction just applied started a zero-quantity, zero-basis position
\* under its own broker.
StartedFresh ==
    LET tx  == applied[1].tx
        new == pos_index[Len(pos_index)]
    IN  /\ applied[1].key = << BrokerOf(tx), SymbolOf(tx) >>
        /\ applied[1].current.quantity = 0
        /\ applied[1].current.avg_buy_price = RZero
        /\ Len(pos_index) > 0
        /\ PosKey(new) = << BrokerOf(tx), SymbolOf(tx) >>
        /\ new.quantity = (IF tx.quantity > 0 THEN tx.quantity ELSE 0)
        /\ new.avg_buy_price =
              (IF tx.quantity > 0 THEN RatOfInt(tx.price) ELSE RZero)

\* The positions the loop held before the transaction just applied: the
\* index without a key that this transaction added.
HeldBefore ==
    IF applied[1].current = EmptyPosition
    THEN SubSeq(pos_index, 1, Len(pos_index) - 1)
    ELSE pos_index

\* C9 as stated, "one position holds the same symbol" read over the positions
\* held when the transaction is applied: with no position under the exact
\* key and exactly one holder of the symbol the transaction updates that
\* holder, in every other case it starts fresh under its own broker.
C9_DisambiguateAmongHeld ==
    (Applied /\ BrokerOf(applied[1].tx)
                   \notin Holders(HeldBefore, SymbolOf(applied[1].tx)))
    => LET holders == Holders(HeldBefore, SymbolOf(applied[1].tx))
       IN  IF Cardinality(holders) = 1
           THEN UpdatedUnder(CHOOSE b \in holders : TRUE)
           ELSE StartedFresh

\* C9 (amended): when a transaction is applied and no position exists for
\* its exact (broker, symbol) key but exactly one broker holds the same
\* symbol in the input snapshot, the transaction updates that broker's
\* position and keeps that broker; in every other case it starts from a
\* zero-quantity, zero-basis position under the transaction's own broker.
C9_DisambiguateAmongSnapshot ==
    (Applied /\ BrokerOf(applied[1].tx)
                   \notin Holders(HeldBefore, SymbolOf(applied[1].tx)))
    => LET holders == Holders(positions, SymbolOf(applied[1].tx))
       IN  IF Cardinality(holders) = 1
           THEN UpdatedUnder(CHOOSE b \in holders : TRUE)
           ELSE StartedFresh

\* C9 witness: a transaction of broker "manual" was booked on the position
\* of the only holder "ibkr", and the log holds a second transaction.
C9_Witness ==
    /\ Applied
    /\ BrokerOf(applied[1].tx) = "manual"
    /\ applied[1].key = << "ibkr", "AAPL" >>
    /\ UpdatedUnder("ibkr")
    /\ Len(transactions) = 2

\* The log has pairwise distinct parseable dates.
DistinctDates(txs) ==
    /\ \A i \in DOMAIN txs : DateKey(txs[i]) # 0
    /\ \A i, j \in DOMAIN txs : i # j => DateKey(txs[i]) # DateKey(txs[j])

\* Every reordering of a log.
Reorderings(txs) ==
    { [i \in DOMAIN txs |-> txs[f[i]]] : f \in Permutations(DOMAIN txs) }

\* C10: for a log with distinct parseable dates every permutation of the log
\* gives the same result of apply_transactions_to_positions and of
\* compute_realized_profit_loss; transactions with absent or unparseable
\* dates are applied before all dated ones.
C10_OrderIndependent ==
    /\ (pc = "realized" /\ DistinctDates(transactions)) =>
          \A other \in Reorderings(transactions) :
             /\ apply_transactions_to_positions(positions, other) = returned
             /\ compute_realized_profit_loss(other) = realized
    /\ (Applied /\ DateKey(applied[1].tx) # 0) =>
          \A i \in DOMAIN pending : DateKey(pending[i]) # 0

\* C10 witness: a log given latest first (the sell is dated after the buy
\* and listed before it) has been replayed by both helpers and
\* its realized profit is not zero.
C10_Witness ==
    /\ pc = "realized"
    /\ Len(transactions) = 2
    /\ DistinctDates(transactions)
    /\ DateKey(transactions[1]) > DateKey(transactions[2])
    /\ transactions[1].quantity < 0 /\ transactions[2].quantity > 0
    /\ realized # RZero

\* The cycle ran over a persisted snapshot and log that nothing changed.
Undisturbed(cycle) == cycle.at_start = cycle.at_end /\ ~cycle.others_wrote

\* The holdings of one replay of a persisted snapshot over its log.
ReplayedOnce(snapshot_and_log) ==
    LET log == dedupe_transactions(snapshot_and_log[2])
        held == IF log = << >> THEN snapshot_and_log[1]
                ELSE apply_transactions_to_positions(snapshot_and_log[1], log)
        kept == SelectSeq(held, LAMBDA pos : ~Falsy(pos.symbol))
    IN  [i \in DOMAIN kept |->
           << kept[i].symbol, kept[i].broker, kept[i].quantity,
              kept[i].avg_buy_price >>]

\* C5: replay is pure and repeatable, so consecutive refresh cycles over an
\* unchanged persisted snapshot and log publish the same quantity and
\* avg_buy_price per asset, and no transaction is applied more than once:
\* a cycle that publishes over an undisturbed snapshot and log publishes the
\* holdings of one replay of that snapshot over that log, which are also
\* those of the cycle before it when that cycle ran over the same undisturbed
\* snapshot and log.
C5_RepeatableCycles ==
    [][ (history'.last_cycle # << >> /\ Undisturbed(history'.last_cycle[1]))
        => /\ history'.last_cycle[1].holdings
                = ReplayedOnce(history'.last_cycle[1].at_start)
           /\ (/\ history.last_cycle # << >>
               /\ Undisturbed(history.last_cycle[1])
               /\ history.last_cycle[1].at_end
                    = history'.last_cycle[1].at_start)
              => history'.last_cycle[1].holdings
                   = history.last_cycle[1].holdings ]_vars

\* The dedup keys of the persisted transaction log.
LogKeys(entry) == { DedupeKey(tx) : tx \in Range(entry.transactions) }

\* C6: the persisted transaction log is append-only: under any interleaving
\* of refresh cycles, CSV imports, manual entry, refresh_asset and
\* remap_symbol, every transaction (dedup key) in the persisted log is still
\* in it after the next step.
C6_LogAppendOnly ==
    [][ LogKeys(entry_data) \subseteq LogKeys(entry_data') ]_vars

\* C7: a refresh cycle writes nothing to the persisted configuration before
\* it has completed: while a cycle is in flight, and when it has failed or
\* been cancelled, the persisted positions, transactions, symbol_mapping and
\* unmapped_symbols are those of the cycle's start (unless another operation
\* wrote them meanwhile).
C7_NothingPersistedBeforeSuccess ==
    /\ pc = "off" /\ update_task.pc # "idle" /\ ~update_task.others_wrote
       => Persisted(entry_data) = Persisted(update_task.start_data[1])
    /\ pc = "off"
       => \A f \in Range(history.failure) :
              ~f.others_wrote => f.at_failure = f.at_start

\* C8: at most one refresh of the portfolio is in flight at any time, and no
\* published snapshot has been overwritten by a refresh that started from an
\* older snapshot.
C8_OneRefreshInFlight ==
    pc = "off"
    => /\ ~(update_task.pc # "idle" /\ asset_task.pc # "idle")
       /\ ~history.overwritten

\* The state of compute_realized_profit_loss after the first k transactions
\* of its date-sorted log.
RealizedAfter(k) ==
    RealizedLoop([ledger |-> << >>, realized |-> RZero],
                 SubSeq(SortByDate(transactions), 1, k))

\* The k-th transaction of the date-sorted log and its (broker, symbol).
SortedTx(k) == SortByDate(transactions)[k]
SortedKey(k) == << BrokerOf(SortedTx(k)), SymbolOf(SortedTx(k)) >>

\* The running (qty, avg) of the k-th transaction's key before it.
HeldAt(k) == LedgerGet(RealizedAfter(k - 1).ledger, SortedKey(k))

\* min(|sell_qty|, max(held_qty, 0))
SoldOfHeld(sell_qty, held_qty) ==
    LET held == IF held_qty > 0 THEN held_qty ELSE 0
    IN  IF Abs(sell_qty) < held THEN Abs(sell_qty) ELSE held

\* C11: compute_realized_profit_loss tracks a running (quantity, avg_cost)
\* per (broker, symbol) over the date-sorted log: a buy adds its quantity,
\* re-weights the average cost and adds nothing to the total; a sell adds
\* (sale_price - avg_cost) * min(|sell_qty|, max(held_qty, 0)) to the one
\* total and leaves max(held_qty - |sell_qty|, 0); no other key changes and
\* the returned value is the total after the last transaction.
C11_RealizedOnSells ==
    pc = "realized" =>
      /\ realized = RealizedAfter(Len(transactions)).realized
      /\ \A k \in DOMAIN transactions :
           LET tx     == SortedTx(k)
               before == RealizedAfter(k - 1)
               after  == RealizedAfter(k)
               held   == HeldAt(k)
               now    == LedgerGet(after.ledger, SortedKey(k))
           IN  /\ \A key \in (DOMAIN before.ledger \cup DOMAIN after.ledger)
                               \ {SortedKey(k)} :
                      LedgerGet(after.ledger, key) = LedgerGet(before.ledger, key)
               /\ tx.quantity > 0 =>
                      /\ after.realized = before.realized
                      /\ now.qty = held.qty + tx.quantity
                      /\ AvgTimesQtyIs(now.avg, now.qty,
                             RAdd(RMulInt(held.avg, held.qty),
                                  RatOfInt(tx.price * tx.quantity)))
               /\ tx.quantity < 0 =>
                      /\ after.realized =
                             RAdd(before.realized,
                                  RMulInt(RSub(RatOfInt(tx.price), held.avg),
                                          SoldOfHeld(tx.quantity, held.qty)))
                      /\ now.qty = (IF held.qty + tx.quantity > 0
                                    THEN held.qty + tx.quantity ELSE 0)

\* C11 witness: 5 bought at 150, then 10 sold at 180 under the same key: the
\* sale realizes (180 - 150) * 5 and nothing is left.
C11_Witness ==
    /\ pc = "realized"
    /\ Len(transactions) = 2
    /\ SortedTx(1).quantity = 5 /\ SortedTx(1).price = 150
    /\ SortedTx(2).quantity = -10 /\ SortedTx(2).price = 180
    /\ SortedKey(1) = SortedKey(2)
    /\ realized = RatOfInt(150)
    /\ HeldAt(2).qty = 5

\* The sum the contract of compute_total_cash_invested names: price * quantity
\* (price / 100 * quantity for a symbol typed bond) over the transactions
\* with quantity > 0 and price > 0.
RECURSIVE PositiveBuysCost(_, _)
PositiveBuysCost(txs, types) ==
    IF txs = << >> THEN RZero
    ELSE LET tx == Head(txs)
             bond == MapGet(NormalizedTypes(types),
                            StripUpper(OrElse(tx.symbol, "")), "") = "bond"
             cost == IF tx.quantity > 0 /\ tx.price > 0
                     THEN IF bond
                          THEN RMulInt(Rat(tx.price, 100), tx.quantity)
                          ELSE RatOfInt(tx.price * tx.quantity)
                     ELSE RZero
         IN  RAdd(cost, PositiveBuysCost(Tail(txs), types))

\* C12: compute_total_cash_invested equals the sum of price * quantity
\* (price / 100 * quantity for symbols whose supplied type is bond) over
\* exactly the transactions with quantity > 0 and price > 0; every other
\* transaction contributes nothing.
C12_CashInvestedOfPositiveBuys ==
    pc = "cash_invested"
    => helper_result = PositiveBuysCost(transactions, asset_types)

\* The indices of a list that hold the first transaction of their dedup key.
FirstIndices(txs) ==
    { i \in DOMAIN txs :
        \A j \in 1..(i - 1) : DedupeKey(txs[j]) # DedupeKey(txs[i]) }

\* The elements of a list at a set of indices, in the order of the list.
RECURSIVE AtIndices(_, _, _)
AtIndices(txs, keep, i) ==
    IF i > Len(txs) THEN << >>
    ELSE (IF i \in keep THEN << txs[i] >> ELSE << >>)
         \o AtIndices(txs, keep, i + 1)

FirstOfEachKey(txs) == AtIndices(txs, FirstIndices(txs), 1)

\* `unique` is what the contract of _dedupe_transactions gives for `txs`.
DedupedFrom(txs, unique) ==
    /\ unique = dedupe_transactions(txs)
    /\ unique = FirstOfEachKey(txs)
    /\ dedupe_transactions(unique) = unique

\* The list _dedupe_transactions was last called on.
LastDeduped ==
    IF pc = "deduped" THEN transactions
    ELSE dedupe_transactions(transactions) \o imported_tx

\* C13: _dedupe_transactions keeps, in original order, exactly the first
\* transaction of each dedup key (symbol, broker, date, quantity, price,
\* type) and is idempotent, dedupe(dedupe(L)) = dedupe(L); two transactions
\* equal on the key but differing in another field collapse to the first.
C13_DedupeFirstSeenIdempotent ==
    pc \in { "deduped", "imported" } => DedupedFrom(LastDeduped, helper_result)

\* C13 witness: of a list x, y, x', z with x' differing from x in the spelling
\* of its symbol and broker only, x and y and z are kept.
C13_Witness ==
    /\ pc = "imported"
    /\ Len(LastDeduped) = 4
    /\ DedupeKey(LastDeduped[3]) = DedupeKey(LastDeduped[1])
    /\ LastDeduped[3] # LastDeduped[1]
    /\ helper_result = << LastDeduped[1], LastDeduped[2], LastDeduped[4] >>

\* C14: deduplication can be applied incrementally,
\* dedupe(dedupe(A) ++ B) = dedupe(A ++ B), and importing the same
\* transaction file a second time leaves the persisted log as it was after
\* the first import.
C14_DedupeIncremental ==
    [][ /\ pc' = "imported"
           => helper_result' = dedupe_transactions(transactions \o imported_tx)
        /\ pc' = "imported_again" => helper_result' = helper_result ]_vars

\* C14 witness: a file of two rows, one of them already in the persisted log
\* under another spelling, has been imported twice and the log holds each
\* key once.
C14_Witness ==
    /\ pc = "imported_again"
    /\ Len(transactions) = 2 /\ Len(imported_tx) = 2
    /\ DedupeKey(imported_tx[1]) = DedupeKey(transactions[2])
    /\ imported_tx[1] # transactions[2]
    /\ DedupeKey(transactions[1]) # DedupeKey(transactions[2])
    /\ DedupeKey(imported_tx[2]) \notin { DedupeKey(t) : t \in Range(transactions) }
    /\ helper_result = << transactions[1], transactions[2], imported_tx[2] >>

\* (symbol, quantity, avg_buy_price) of a position.
RawHolding(pos) == << StripUpper(OrElse(pos.symbol, "")), pos.quantity,
                      pos.avg_buy_price >>

\* The holdings of the raw snapshots: the rows of the positions file and the
\* position entered in the set-up flow.
RawHoldings ==
    { RawHolding(pos) :
        pos \in Range(parse_positions_csv(PositionsFile,
                                          FileBroker(PositionsFile)))
                \cup { ManualSetupPosition } }

\* C15: no operation of the orchestrator or of its command handlers writes
\* positions derived from transaction replay into the persisted positions:
\* every persisted position holds the quantity and avg_buy_price of a raw
\* snapshot (CSV row or manual entry).
C15_OnlyRawSnapshotPersisted ==
    pc = "off"
    => \A pos \in Range(entry_data.positions) : RawHolding(pos) \in RawHoldings

\* The candidates of a search answer that score >= 0.9.
HighScoring(results) ==
    { i \in DOMAIN results :
        SimilarityPercent(FuzzySymbol, results[i].symbol) >= 90 }

\* C16: fuzzy-match resolution accepts a search candidate if and only if
\* exactly one candidate has similarity >= 0.9 to the requested symbol, and
\* then maps the symbol to that candidate and records the mapping; with zero
\* or with more than one such candidate the symbol stays unresolved (mapped
\* to itself), is flagged unmapped and no mapping is recorded.
C16_FuzzyAcceptsSingleHigh ==
    pc = "resolved" =>
      LET task == helper_result.task
          high == HighScoring(helper_result.results)
      IN  IF Cardinality(high) = 1
          THEN LET cand == helper_result.results[CHOOSE i \in high : TRUE].symbol
               IN  /\ task.symbol_map = (FuzzySymbol :> cand)
                   /\ task.mapping_updates = (FuzzySymbol :> cand)
                   /\ task.unresolved_symbols = {}
                   /\ ~helper_result.asset.unmapped
          ELSE /\ task.symbol_map = (FuzzySymbol :> FuzzySymbol)
               /\ task.mapping_updates = EmptyMap
               /\ task.unresolved_symbols = { FuzzySymbol }
               /\ helper_result.asset.unmapped

\* C16 witness: of two candidates scoring 0.80 and 0.95 the second is taken.
C16_Witness ==
    /\ pc = "resolved"
    /\ Len(helper_result.results) = 2
    /\ SimilarityPercent(FuzzySymbol, helper_result.results[1].symbol) = 80
    /\ SimilarityPercent(FuzzySymbol, helper_result.results[2].symbol) = 95
    /\ helper_result.task.symbol_map[FuzzySymbol]
         = helper_result.results[2].symbol
    /\ helper_result.task.unresolved_symbols = {}

\* The persisted override table.
PersistedMapping == OrEmptyMap(entry_data.symbol_mapping)

\* A step of remap_symbol, the one operation by which the user changes the
\* table.
RemapStep == calls'.remaps # calls.remaps

\* The step in which a cycle leaves its symbol resolution (lines 375-377).
ResolutionEnds ==
    /\ update_task.pc \in { "idle", "await_parse_positions",
                            "await_parse_transactions",
                            "await_parse_processed", "await_search" }
    /\ update_task'.pc = "await_quotes"

\* The step in which a cycle issues a resolution search (line 352).
SearchIssued ==
    /\ update_task'.pc = "await_search"
    /\ \/ update_task.pc # "await_search"
       \/ update_task'.cursor # update_task.cursor

\* C17: self-learning. When a cycle has accepted fuzzy-match candidates, each
\* pair symbol -> candidate is in the persisted symbol_mapping once the
\* resolution ends; no step other than a remap removes or changes a persisted
\* mapping entry; and no cycle issues a resolution search for a symbol that
\* has a persisted entry.
C17_SelfLearningKeepsMapping ==
    [][ /\ ResolutionEnds =>
            \A s \in DOMAIN update_task'.mapping_updates :
                /\ s \in DOMAIN PersistedMapping'
                /\ PersistedMapping'[s] = update_task'.mapping_updates[s]
        /\ ~RemapStep =>
            \A s \in DOMAIN PersistedMapping :
                /\ s \in DOMAIN PersistedMapping'
                /\ PersistedMapping'[s] = PersistedMapping[s]
        /\ SearchIssued =>
            update_task'.symbols[update_task'.cursor]
                \notin DOMAIN PersistedMapping'
      ]_vars

\* The tickers a remap_symbol call can store.
RemapTickers == { call.ticker : call \in RemapCalls } \ { NoneValue }

\* The symbols whose persisted entry in `mapping` is a user's override.
Overridden(mapping) ==
    { s \in DOMAIN mapping : mapping[s] \in RemapTickers }

\* The step in which refresh_asset resolves its symbol (lines 112-118).
AssetResolved == asset_task.pc = "idle" /\ asset_task'.pc = "await_quote"

\* C18: a ticker override stored by remap_symbol always wins. No step other
\* than a remap removes or changes it; a cycle that started with the override
\* in place resolves the symbol to the stored ticker, whatever the provider
\* and the position's type; and so does a refresh_asset call.
C18_OverrideAlwaysWins ==
    [][ /\ ~RemapStep =>
            \A s \in Overridden(PersistedMapping) :
                /\ s \in DOMAIN PersistedMapping'
                /\ PersistedMapping'[s] = PersistedMapping[s]
        /\ ResolutionEnds =>
            \A s \in Overridden(
                        OrEmptyMap(update_task'.start_data[1].symbol_mapping)) :
                (/\ s \in DOMAIN update_task'.symbol_map
                 /\ s \in DOMAIN PersistedMapping'
                 /\ PersistedMapping'[s]
                      = update_task'.start_data[1].symbol_mapping[1][s])
                => update_task'.symbol_map[s] = PersistedMapping'[s]
        /\ AssetResolved =>
            (asset_task'.symbol \in Overridden(PersistedMapping')
             => asset_task'.mapped_symbol
                  = PersistedMapping'[asset_task'.symbol])
      ]_vars

\* The persisted positions whose type the user has set.
ManualPositions(entry) ==
    { pos \in Range(entry.positions) : pos.manual_type }

\* The published assets, none before the first publication.
PublishedAssets(data) ==
    IF data = << >> THEN {} ELSE Range(data[1].assets)

\* The asset published for a position: the replay and the valuation keep the
\* symbol upper-cased and the broker lower-cased.
AssetOf(asset, pos) ==
    /\ StripUpper(asset.symbol) = StripUpper(OrElse(pos.symbol, ""))
    /\ StripLower(asset.broker) = StripLower(pos.broker)

\* The position's asset is published, with the user-set type.
PublishedAsSet(pos, data) ==
    /\ \E asset \in PublishedAssets(data) : AssetOf(asset, pos)
    /\ \A asset \in PublishedAssets(data) :
          AssetOf(asset, pos) => asset.type = pos.type

\* C19: a position with manual_type = true keeps its user-set type. No step
\* other than a remap changes the persisted type or manual_type of such a
\* position, and once its asset is published with the user-set type no cycle
\* and no refresh_asset call publishes it with another type.
C19_ManualTypeKept ==
    [][ ~RemapStep =>
          \A pos \in ManualPositions(entry_data) :
             /\ \A new \in Range(entry_data'.positions) :
                    (new.symbol = pos.symbol /\ new.broker = pos.broker)
                    => (new.manual_type /\ new.type = pos.type)
             /\ PublishedAsSet(pos, coordinator.data)
                  => \A asset \in PublishedAssets(coordinator'.data) :
                         AssetOf(asset, pos) => asset.type = pos.type
      ]_vars

\* C20: in every published snapshot, whether a full refresh or refresh_asset
\* produced it, an asset of type bond with a non-null price has
\* market_value = (current_price / 100) * quantity.
C20_BondValuedAsPercentOfFace ==
    \A asset \in PublishedAssets(coordinator.data) :
        (asset.type = "bond" /\ asset.current_price # << >>)
        => asset.market_value
             = << RMulInt(RDivInt(asset.current_price[1], 100),
                          asset.quantity) >>

\* The totals of the published snapshot of the valuations.
PublishedTotals == helper_result.totals

\* The cash deployed across all buys of the log the snapshot was built from.
CashDeployed ==
    PositiveBuysCost(dedupe_transactions(transactions),
                     << SymbolAssetTypes(helper_result.assets) >>)

\* C21: in every published snapshot total_profit_loss is the sum of
\* total_profit_loss_realized and total_profit_loss_unrealized,
\* total_invested is the cash deployed across all buys, and
\* total_profit_loss_pct is total_profit_loss / total_invested * 100, or 0
\* when total_invested is 0.
C21_TotalsConsistent ==
    pc \in { "valued", "asset_refreshed" } =>
        /\ PublishedTotals.total_profit_loss_realized # << >>
        /\ PublishedTotals.total_profit_loss_unrealized # << >>
        /\ PublishedTotals.total_profit_loss
             = RAdd(PublishedTotals.total_profit_loss_realized[1],
                    PublishedTotals.total_profit_loss_unrealized[1])
        /\ PublishedTotals.total_invested = CashDeployed
        /\ PublishedTotals.total_profit_loss_pct
             = PercentOf(PublishedTotals.total_profit_loss,
                         PublishedTotals.total_invested)

\* A full cycle or a refresh_asset call completes with this step.
RefreshCompletes == history'.publications # history.publications

\* The symbols the published snapshot flags unmapped.
FlaggedUnmapped(data) ==
    { asset.symbol : asset \in { a \in PublishedAssets(data) : a.unmapped } }

\* The persisted unmapped_symbols, none before the first completed refresh.
PersistedUnmapped(entry) ==
    IF entry.unmapped_symbols = << >> THEN {}
    ELSE Range(entry.unmapped_symbols[1])

\* C22: after every completed refresh (full cycle or refresh_asset) the open
\* unmapped-symbol warnings equal the symbols the published snapshot flags
\* unmapped and equal the persisted unmapped_symbols; so a symbol that was
\* unmapped and is resolved by a later refresh has its warning cleared when
\* that refresh completes.
C22_WarningsFollowSnapshot ==
    [][ RefreshCompletes =>
          /\ issues' = FlaggedUnmapped(coordinator'.data)
          /\ issues' = PersistedUnmapped(entry_data')
          /\ entry_data'.unmapped_symbols # << >>
      ]_vars

\* C22 witness: a second refresh has completed with a symbol flagged unmapped
\* in the published snapshot, its warning open and the symbol persisted.
C22_Witness ==
    /\ history.publications >= 2
    /\ update_task.pc = "idle"
    /\ asset_task.pc = "idle"
    /\ issues # {}
    /\ issues = FlaggedUnmapped(coordinator.data)
    /\ issues = PersistedUnmapped(entry_data)

\* C23: in a refresh cycle each market symbol is requested from exactly one
\* quote provider: the symbols sent to Yahoo (chart-based) and to Stooq
\* (suffix-probing) are disjoint, so the merged quote map holds no symbol
\* written by both and is the same whichever provider is called first.
C23_RoutingExclusive ==
    pc = "routed" =>
        /\ Range(helper_result.yahoo_symbols)
              \cap Range(helper_result.stooq_symbols) = {}
        /\ helper_result.quotes
              = MapUpdate(MapUpdate(EmptyMap, helper_result.stooq_quotes),
                          helper_result.yahoo_quotes)

\* Every request of the call for `symbol` failed.
FailedInCall(symbol) ==
    /\ symbol \in Range(helper_result.symbols)
    /\ \A i \in DOMAIN helper_result.symbols :
          helper_result.symbols[i] = symbol => helper_result.fetched[i] = << >>

\* C24: over any sequence of alphavantage.get_quotes calls with an API key
\* and a cache file, every requested symbol is answered with the price of its
\* most recent successful fetch (this call's, when it succeeded), or None if
\* there was none; the cache entry of every symbol holds that price too, so
\* a successful fetch overwrites it and a failed fetch never replaces it.
C24_CacheKeepsLastSuccess ==
    pc = "alpha" =>
        /\ \A s \in Range(helper_result.symbols) :
              /\ s \in DOMAIN helper_result.data
              /\ helper_result.data[s].price = helper_result.last_success[s]
        /\ \A s \in AlphaSymbols :
              IF s \in DOMAIN helper_result.cache
              THEN helper_result.cache[s].price = helper_result.last_success[s]
              ELSE helper_result.last_success[s] = << >>
        /\ \A s \in DOMAIN helper_result.cache_before :
              FailedInCall(s) =>
                  helper_result.cache[s] = helper_result.cache_before[s]

\* C24 witness: a failed fetch was answered with the cached price of an
\* earlier call while another symbol's entry was overwritten by a new price.
C24_Witness ==
    /\ pc = "alpha"
    /\ helper_result.calls >= 2
    /\ \E s \in Range(helper_result.symbols) :
          /\ FailedInCall(s)
          /\ s \in DOMAIN helper_result.cache_before
          /\ helper_result.data[s].price # << >>
          /\ helper_result.data[s].price = helper_result.cache_before[s].price
    /\ \E s \in Range(helper_result.symbols) :
          /\ ~FailedInCall(s)
          /\ s \in DOMAIN helper_result.cache_before
          /\ helper_result.cache_before[s].price # << >>
          /\ helper_result.cache[s].price # helper_result.cache_before[s].price

\* The quote the valuation reads for a position of the routed portfolio.
QuoteRead(pos) ==
    MapGet(helper_result.quotes,
           MapGet(helper_result.task.symbol_map, pos.symbol, pos.symbol),
           NoAnswer)

\* C25: a provider failure for one symbol (no price from get_quotes, no row
\* from search_symbols) never raises: the cycle completes and its snapshot
\* holds every position, with market_value None for a symbol without price
\* and with quantity and avg_buy_price intact.
C25_ProviderFailureIsLocal ==
    pc = "routed" =>
        /\ ~helper_result.built.failed
        /\ Len(helper_result.built.assets) = Len(helper_result.positions)
        /\ \A i \in DOMAIN helper_result.positions :
              LET pos == helper_result.positions[i]
                  asset == helper_result.built.assets[i]
              IN  /\ asset.symbol = pos.symbol
                  /\ asset.quantity = pos.quantity
                  /\ asset.avg_buy_price = pos.avg_buy_price
                  /\ QuoteRead(pos).price = << >> => asset.market_value = << >>

\* C26: remap_symbol requests a refresh if and only if it changed the
\* persisted configuration (the entry's data, the snapshot the coordinator
\* keeps of its positions).
C26_RefreshIffChanged ==
    pc = "remapped" =>
        (helper_result.world.rq
           <=> \/ helper_result.world.e # helper_result.before.e
               \/ helper_result.world.c.positions
                    # helper_result.before.c.positions)

\* The identity of a position or asset: broker trimmed and lower-cased,
\* symbol trimmed and upper-cased.
IdentityOf(item) == << Norm(item.broker), Sym(item.symbol) >>

UniqueIdentities(items) ==
    \A i, j \in DOMAIN items :
        IdentityOf(items[i]) = IdentityOf(items[j]) => i = j

\* C27: position identity is unique: no two positions returned by
\* apply_transactions_to_positions and no two assets of a published snapshot
\* share the normalized (broker, symbol) key, whatever manual additions and
\* log came before the refresh.
C27_IdentityUnique ==
    pc = "listed" =>
        /\ UniqueIdentities(helper_result.replayed)
        /\ UniqueIdentities(helper_result.assets)

\* C28: in a yahoo_public cycle a commodity position is resolved to its
\* symbol followed by its currency code (the position's, else the base
\* currency) and search_symbols is never called for it during the cycle.
C28_CommodityBypassesSearch ==
    pc = "routed" =>
        \A i \in DOMAIN helper_result.positions :
            LET pos == helper_result.positions[i]
                mapped == helper_result.task.symbol_map[pos.symbol]
            IN  pos.type = "commodity" =>
                    /\ mapped = CommodityTicker(pos.symbol,
                                                OrElse(pos.currency, "USD"))
                    /\ pos.symbol \notin helper_result.searches.resolution
                    /\ mapped \notin helper_result.searches.enrichment

\* Alpha Vantage is selected and no API key is configured.
Keyless == pc = "alpha_cycle" /\ Falsy(helper_result.alpha_key)

\* C29 as stated: with Alpha Vantage selected and no API key, every symbol
\* the cycle requests gets a quote with a null price and the cache file is
\* left unchanged.
C29_KeylessCycleAllNull ==
    Keyless =>
        /\ \A s \in Range(helper_result.symbols) :
              helper_result.cycle.quotes[s].price = << >>
        /\ helper_result.cycle.cache = helper_result.cache_before

\* C29 amended: without an API key alphavantage.get_quotes answers every
\* requested symbol with a null price and leaves the cache file unchanged;
\* the cycle does not call it, leaves the cache file unchanged too, and a
\* price it has for a symbol is not a cached one.
C29_KeylessProviderAllNull ==
    Keyless =>
        /\ DOMAIN helper_result.provider.data = Range(helper_result.symbols)
        /\ \A s \in Range(helper_result.symbols) :
              helper_result.provider.data[s].price = << >>
        /\ helper_result.provider.cache = helper_result.cache_before
        /\ helper_result.cycle.cache = helper_result.cache_before
        /\ \A s \in Range(helper_result.symbols) :
              helper_result.cycle.quotes[s] \in StooqAnswers

\* C29 witness: no key, a cache file with a price for a requested symbol,
\* and a cycle whose quote for that symbol has a price.
C29_Witness ==
    /\ Keyless
    /\ \E s \in Range(helper_result.symbols) :
          /\ s \in DOMAIN helper_result.cache_before
          /\ helper_result.cache_before[s].price # << >>
          /\ helper_result.provider.data[s].price = << >>
          /\ helper_result.cycle.quotes[s].price # << >>

\* C30: within a refresh cycle a position that is not manual_type and for
\* which the provider supplies no sector, no industry and no quote type is
\* classified equity (so "other" needs some sector or industry text). Stooq
\* supplies none of the three; Yahoo supplies none when its search answers
\* nothing for the symbol.
C30_NoDataIsEquity ==
    /\ pc = "listed" =>
          \A i \in DOMAIN helper_result.assets :
              helper_result.assets[i].type = "equity"
    /\ pc = "routed" =>
          \A i \in DOMAIN helper_result.built.assets :
              (/\ ~helper_result.positions[i].manual_type
               /\ QuoteRead(helper_result.positions[i]).search = << >>)
                  => helper_result.built.assets[i].type = "equity"

\* The classes in their fixed order.
ClassOrder == << "etf", "bond", "commodity", "crypto", "cash", "equity" >>

\* The texts of the classified symbol match a token of the class.
MatchesClass(class) ==
    LET yt == LowerText(helper_result.yahoo_type)
        texts == { LowerText(helper_result.sector),
                   LowerText(helper_result.industry) }
        Holds(token) == \E text \in texts : Contains(token, text)
    IN  CASE class = "etf" ->
               yt \in { "etf", "exchange-traded fund" }
               \/ Contains("etf", LowerText(helper_result.industry))
          [] class = "bond" ->
               yt = "bond"
               \/ Contains("bond", LowerText(helper_result.industry))
               \/ Contains("fixed income", LowerText(helper_result.sector))
          [] class = "commodity" -> yt = "commodity" \/ Holds("commodity")
          [] class = "crypto" ->
               yt \in { "cryptocurrency", "crypto" } \/ Holds("crypto")
          [] class = "cash" -> yt = "cash" \/ Holds("cash")
          [] class = "equity" ->
               yt \in { "equity", "stock" } \/ Holds("stock")
               \/ Holds("equity")

\* C31: classification is first-match-wins in the order etf, bond,
\* commodity, crypto, cash, equity: when the quote type, sector and industry
\* match tokens of several classes, map_yahoo_category returns the earliest
\* of them in that order.
C31_FirstMatchWins ==
    pc = "classified" =>
        \A i \in DOMAIN ClassOrder :
            (/\ MatchesClass(ClassOrder[i])
             /\ \A j \in 1..(i - 1) : ~MatchesClass(ClassOrder[j]))
                => helper_result.type = ClassOrder[i]

\* C31 witness: the texts match the tokens of three classes and the earliest
\* is returned.
C31_Witness ==
    /\ pc = "classified"
    /\ Cardinality({ i \in DOMAIN ClassOrder : MatchesClass(ClassOrder[i]) })
         >= 3
    /\ ~MatchesClass("etf")
    /\ MatchesClass("bond")
    /\ helper_result.type = "bond"

\* The candidates of an unsuffixed symbol in the order the claim names.
ProbeOrder(sym) ==
    << sym \o ".US", sym \o ".DE", sym \o ".UK", sym \o ".L", sym \o ".F",
       sym \o ".PL", sym >>

\* The quote of the probed symbol.
Probed == helper_result.data[helper_result.symbol]

\* The candidate answered with a non-empty close.
HasClose(candidate) == StooqClose(helper_result.answers[candidate]) # << >>

\* C32: for a symbol without a '.', stooq.get_quotes requests .US, .DE, .UK,
\* .L, .F, .PL and then the bare symbol, in that order, stops at the first
\* candidate with a non-empty close and reports it as source_symbol; for a
\* symbol with a suffix exactly that symbol is requested; when no candidate
\* has a close the price is None.
C32_SuffixProbing ==
    (pc = "probed" /\ StripUpper(helper_result.symbol) # "") =>
        LET sym == StripUpper(helper_result.symbol)
            order == IF HasDot(sym) THEN << sym >> ELSE ProbeOrder(sym)
            hits == { i \in DOMAIN order : HasClose(order[i]) }
        IN  IF hits = {}
            THEN /\ Probed.queried = order
                 /\ Probed.price = << >>
                 /\ Probed.source_symbol = NoneValue
            ELSE LET first == CHOOSE i \in hits : \A j \in hits : i <= j
                 IN  /\ Probed.queried = SubSeq(order, 1, first)
                     /\ Probed.source_symbol = order[first]
                     /\ Probed.price = StooqClose(
                                           helper_result.answers[order[first]])

\* C32 witness: .US and .DE had no close, .UK had one and was reported, and
\* a later candidate that had a close too was not requested.
C32_Witness ==
    /\ pc = "probed"
    /\ helper_result.symbol = "AAPL"
    /\ Probed.source_symbol = "AAPL.UK"
    /\ Probed.queried = << "AAPL.US", "AAPL.DE", "AAPL.UK" >>
    /\ Probed.price # << >>
    /\ HasClose("AAPL")

\* C33: with an empty snapshot and the log "buy 10 AAPL at 150 on day 1, sell 4
\* at 180 on day 2", the replay returns one position of quantity 6 and
\* avg_buy_price 150, the realized profit is 120 and the cash invested 1500.
C33_WorkedExample ==
    pc = "example" =>
        /\ Len(helper_result.positions) = 1
        /\ helper_result.positions[1].symbol = "AAPL"
        /\ helper_result.positions[1].quantity = 6
        /\ helper_result.positions[1].avg_buy_price = RatOfInt(150)
        /\ helper_result.realized_profit_loss = RatOfInt(120)
        /\ helper_result.total_cash_invested = RatOfInt(1500)

\* The log lists the sell before the buy and the replay still ends at 6.
C33_Witness ==
    /\ pc = "example"
    /\ helper_result.log[1].quantity = -4
    /\ helper_result.log[1].date = "02-01-2024 09:30"
    /\ helper_result.positions[1].quantity = 6

\* The step that ends a refresh_asset call which found its asset.
RefreshAssetEnds == asset_task.pc = "await_quote" /\ asset_task'.pc = "idle"

\* C34: refresh_asset is quote-only: the step that ends it leaves the persisted
\* positions, transactions and symbol_mapping as they were, leaves every
\* published asset other than the targeted one unchanged, and leaves the
\* targeted asset's quantity, avg_buy_price and type unchanged.
C34_RefreshAssetIsQuoteOnly ==
    [][RefreshAssetEnds =>
         /\ entry_data'.positions = entry_data.positions
         /\ entry_data'.transactions = entry_data.transactions
         /\ entry_data'.symbol_mapping = entry_data.symbol_mapping
         /\ Len(coordinator'.data[1].assets) = Len(coordinator.data[1].assets)
         /\ \A i \in DOMAIN coordinator.data[1].assets :
               LET before == coordinator.data[1].assets[i]
                   after  == coordinator'.data[1].assets[i]
               IN  IF IsTarget(before, asset_task.symbol, asset_task.broker)
                   THEN /\ after.quantity = before.quantity
                        /\ after.avg_buy_price = before.avg_buy_price
                        /\ after.type = before.type
                   ELSE after = before]_vars

\* The currency a row of a Degiro export is specified to get: the cell behind
\* "Lokale waarde", or the base currency when that cell is absent or empty.
SpecifiedCurrency(header, row, base_currency) ==
    LET col  == ColumnOf(header, "Lokale waarde")
        cell == IF col > 0 /\ col + 1 <= Len(row) THEN Strip(row[col + 1])
                ELSE ""
    IN  IF cell # "" THEN cell ELSE base_currency

\* C35: each transaction parsed from a Datum/Product/Aantal file has the
\* currency found in the column that follows "Lokale waarde", and the
\* portfolio's base currency when that column is absent or empty.
C35_DegiroCurrency ==
    pc = "degiro" =>
        LET kept == SelectSeq(helper_result.rows, LAMBDA row : row # << >>)
        IN  /\ Len(helper_result.incoming_tx) = Len(kept)
            /\ \A i \in DOMAIN kept :
                  helper_result.incoming_tx[i].currency =
                      SpecifiedCurrency(helper_result.header, kept[i],
                                        helper_result.base_currency)

\* The part of C35 the parser meets: the same with a portfolio in EUR.
C35_EuroPortfolio ==
    (pc = "degiro" /\ helper_result.base_currency = "EUR") =>
        LET kept == SelectSeq(helper_result.rows, LAMBDA row : row # << >>)
        IN  /\ Len(helper_result.incoming_tx) = Len(kept)
            /\ \A i \in DOMAIN kept :
                  helper_result.incoming_tx[i].currency =
                      SpecifiedCurrency(helper_result.header, kept[i], "EUR")

\* The persisted positions are what the persisted log alone replays to: every
\* one of them has the quantity and the average of the log's position.
DerivedFromLog(entry) ==
    LET replayed == apply_transactions_to_positions(<< >>, entry.transactions)
    IN  /\ entry.transactions # << >>
        /\ entry.positions # << >>
        /\ \A i \in DOMAIN entry.positions :
              \E j \in DOMAIN replayed :
                  /\ BrokerOf(entry.positions[i]) = replayed[j].broker
                  /\ SymbolOf(entry.positions[i]) = replayed[j].symbol
                  /\ entry.positions[i].quantity = replayed[j].quantity
                  /\ entry.positions[i].avg_buy_price = replayed[j].avg_buy_price

\* C36: however remap_symbol (category given, no positions persisted)
\* interleaves with a cycle or a refresh_asset call, the persisted
\* configuration never holds both the positions derived from the transaction
\* log and that log.
C36_NeverPositionsAndTheirLog == ~DerivedFromLog(entry_data)

\* The overrides stored since the cycle in flight read the table at its start.
StoredInFlight ==
    IF update_task.pc = "idle" \/ update_task.start_data = << >> THEN {}
    ELSE LET at_start == OrEmptyMap(update_task.start_data[1].symbol_mapping)
         IN  { s \in Overridden(PersistedMapping) :
                 s \notin DOMAIN at_start
                 \/ at_start[s] # PersistedMapping[s] }

\* C37: a ticker override stored while a cycle is in flight is kept by every
\* step of that cycle, the step that persists the newly learned mappings
\* included, and so is in the persisted symbol_mapping when the cycle ends.
C37_OverrideSurvivesCycle ==
    [][ ~RemapStep =>
          \A s \in StoredInFlight :
              /\ s \in DOMAIN PersistedMapping'
              /\ PersistedMapping'[s] = PersistedMapping[s] ]_vars

\* C38: replayed on an empty snapshot, each returned (broker, symbol) position
\* has the quantity and avg_buy_price that compute_realized_profit_loss holds
\* for that key after the last transaction of the same log, an absent key
\* counting as (0, 0).
C38_ReplayRefinesLedger ==
    (pc \in { "returned", "realized" } /\ positions = << >>) =>
        LET ledger == RealizedLedger(transactions)
        IN  /\ \A i \in DOMAIN returned :
                  LET held == LedgerGet(ledger, PosKey(returned[i]))
                  IN  /\ returned[i].quantity = held.qty
                      /\ returned[i].avg_buy_price = held.avg
            /\ \A key \in DOMAIN ledger :
                  \/ \E i \in DOMAIN returned : PosKey(returned[i]) = key
                  \/ (ledger[key].qty = 0 /\ ledger[key].avg = RZero)

\* Two brokers' positions were replayed from a log on an empty snapshot: one
\* was sold beyond what was held, one is still held.
C38_Witness ==
    /\ pc = "returned"
    /\ positions = << >>
    /\ Len(transactions) = MaxLog
    /\ \E tx \in Range(transactions) : tx.quantity = -10
    /\ \E i, j \in DOMAIN returned :
          /\ returned[i].quantity = 0
          /\ returned[j].quantity > 0
          /\ returned[j].avg_buy_price # RZero

\* profit_loss_abs of an asset as a term of a sum: nothing without a price.
PricedProfitLoss(asset) ==
    IF ProfitLossAbs(asset) = << >> THEN RZero ELSE ProfitLossAbs(asset)[1]

\* C39: in the snapshot of a full refresh total_profit_loss_unrealized
\* (total_value - total_active_invested) is the sum of profit_loss_abs over
\* the assets that have a price.
C39_UnrealizedIsSumOfAssets ==
    pc = "valued" =>
        helper_result.totals.total_profit_loss_unrealized
            = << SumOver(helper_result.assets, PricedProfitLoss) >>

\* C40: the static default mapping table is never modified: whatever cycles
\* and refresh_asset calls have run, get_default_symbol_mapping() returns the
\* original table, which has the one key "default" and no per-broker part.
C40_DefaultTableUntouched == DEFAULT_SYMBOL_MAPPING = EmptyMap

====
